-------------------------- MODULE TokenStoreProofs --------------------------
(***************************************************************************)
(* Proofs about TokenStore, for any number of servers, calls, disconnects, *)
(* grants, attempts and faults.                                            *)
(***************************************************************************)
EXTENDS TokenStore, TLAPS

---------------------------------------------------------------------------
(* Records *)

\* The statements leave a row a row, under its id and with its grant.
LEMMA StatementsType ==
    ASSUME NEW c \in Connections \cup {NoConnection}, NEW id \in Nat
    PROVE  /\ \A token \in TokenOrNull :
                 /\ updateAccessToken(c, id, token) \in Connections \cup {NoConnection}
                 /\ c = NoConnection => updateAccessToken(c, id, token) = NoConnection
                 /\ c # NoConnection =>
                       /\ updateAccessToken(c, id, token) # NoConnection
                       /\ updateAccessToken(c, id, token).id = c.id
                       /\ updateAccessToken(c, id, token).grant = c.grant
           /\ \A status \in CONNECTION_STATUSES :
                 /\ markConnectionFailed(c, id, status) \in Connections \cup {NoConnection}
                 /\ c = NoConnection => markConnectionFailed(c, id, status) = NoConnection
                 /\ c # NoConnection =>
                       /\ markConnectionFailed(c, id, status) # NoConnection
                       /\ markConnectionFailed(c, id, status).id = c.id
                       /\ markConnectionFailed(c, id, status).grant = c.grant
<1> USE ConnectionAssumption DEF Connections, CONNECTION_STATUSES, TokenOrNull, matchesId
<1>1. CASE c = NoConnection
  BY <1>1 DEF updateAccessToken, markConnectionFailed
<1>2. CASE c \in Connections
  <2>1. ASSUME NEW token \in TokenOrNull
        PROVE  /\ updateAccessToken(c, id, token) \in Connections
               /\ updateAccessToken(c, id, token).id = c.id
               /\ updateAccessToken(c, id, token).grant = c.grant
    BY <1>2 DEF updateAccessToken
  <2>2. ASSUME NEW status \in CONNECTION_STATUSES
        PROVE  /\ markConnectionFailed(c, id, status) \in Connections
               /\ markConnectionFailed(c, id, status).id = c.id
               /\ markConnectionFailed(c, id, status).grant = c.grant
    BY <1>2 DEF markConnectionFailed
  <2>3. c # NoConnection
    BY <1>2
  <2> QED
    BY <2>1, <2>2, <2>3
<1> QED
  BY <1>1, <1>2

\* A call that is over, a refresh that is none and a new token are what their
\* names say.
LEMMA FreshType ==
    /\ NoRefresh \in Refreshes
    /\ Over \in CallRecords
    /\ NoRemoval \in Removals
    /\ mints \in Nat => \A g \in Grants : NewToken(g) \in Tokens
<1>1. (CHOOSE s \in Servers : TRUE) \in Servers
  BY ConnectionAssumption
<1>2. 1 \in 1..MaxAttempts /\ 1 \in 1..MAX_TOKEN_ATTEMPTS
  BY ConnectionAssumption
<1> QED
  BY <1>1, <1>2, ConnectionAssumption
  DEF NoRefresh, Refreshes, RefreshStages, Over, CallRecords, NoRemoval, Removals,
      NewToken, Tokens, TokenOrNull

\* What a 401 makes of a call.
LEMMA SecondRoundType ==
    ASSUME NEW c \in Calls, call[c] \in CallRecords
    PROVE  /\ SecondRound(c) \in CallRecords
           /\ SecondRound(c).pc = "ask" /\ SecondRound(c).round = 2
           /\ SecondRound(c).id = call[c].id /\ SecondRound(c).grant = call[c].grant
           /\ SecondRound(c).server = call[c].server
           /\ SecondRound(c).token = NoToken /\ SecondRound(c).refused = call[c].token
           /\ SecondRound(c).cutOff = call[c].cutOff
<1>1. 1 \in 1..MaxAttempts
  BY ConnectionAssumption
<1> QED
  BY <1>1 DEF SecondRound, CallRecords, TokenOrNull

---------------------------------------------------------------------------
(* Type correctness *)

\* The first row is stored and nothing is running.
LEMMA TypeInit == Init => TokenTypeOK
<1> SUFFICES ASSUME Init PROVE TokenTypeOK
  OBVIOUS
<1>1. conn \in Connections
  BY ConnectionAssumption
  DEF Init, Connections, CONNECTION_STATUSES, TokenOrNull, Tokens
<1>2. /\ refresh \in [Servers -> Refreshes]
      /\ call \in [Calls -> CallRecords]
      /\ removal \in [Admins -> Removals]
  BY FreshType DEF Init
<1>3. rows = 1 /\ mints = 1 /\ faults = 0
  BY DEF Init
<1>5. rows \in Nat /\ mints \in Nat /\ faults \in 0..MaxFaults
  BY <1>3, ConnectionAssumption
<1>6. overtaken \in BOOLEAN
  BY Zenon DEF Init
<1>4. /\ lapsed \subseteq Tokens /\ issued \subseteq Grants /\ dead \subseteq Grants
      /\ held \subseteq Tokens /\ removed \subseteq Grants
  BY ConnectionAssumption DEF Init
<1> QED
  BY <1>1, <1>2, <1>4, <1>5, <1>6 DEF TokenTypeOK

\* Rejecting a refresh leaves calls and refreshes what they are.
LEMMA RejectType ==
    ASSUME TokenTypeOK, NEW s \in Servers, NEW unauthorized \in BOOLEAN,
           Reject(s, unauthorized)
    PROVE  /\ refresh' \in [Servers -> Refreshes]
           /\ call' \in [Calls -> CallRecords]
<1>1. \A c \in Calls : call[c] \in CallRecords /\ SecondRound(c) \in CallRecords
  BY SecondRoundType DEF TokenTypeOK
<1> QED
  BY <1>1, FreshType DEF Reject, TokenTypeOK

\* The steps of a call.
LEMMA CallType ==
    ASSUME TokenTypeOK, NEW c \in Calls,
           CallStep(c) \/ \E s \in Servers : CallStart(c, s)
    PROVE  TokenTypeOK'
<1> USE DEF TokenTypeOK
<1>1. call[c] \in CallRecords /\ SecondRound(c) \in CallRecords /\ Over \in CallRecords
  BY SecondRoundType, FreshType
<1>2. ASSUME NEW s \in Servers, CallStart(c, s) PROVE TokenTypeOK'
  <2>1. [Over EXCEPT !.pc = "ask", !.server = s, !.cutOff = conn = NoConnection]
           \in CallRecords
    BY <1>1 DEF CallRecords
  <2> QED
    BY <1>2, <2>1 DEF CallStart, google, history
<1>3. ASSUME Ask(c) PROVE TokenTypeOK'
  <2>1. /\ isActive(conn) => ToJoin(c) \in CallRecords
        /\ isActive(conn) =>
              [call[c] EXCEPT !.pc = "issue", !.token = conn.token] \in CallRecords
    BY <1>1 DEF isActive, ToJoin, CallRecords, Connections
  <2>2. call' \in [Calls -> CallRecords]
    BY <1>1, <1>3, <2>1 DEF Ask
  <2> QED
    BY <1>3, <2>2, ConnectionAssumption DEF Ask, google, history, Fault
<1>4. ASSUME Join(c) PROVE TokenTypeOK'
  <2>1. call' \in [Calls -> CallRecords]
    BY <1>1, <1>4, ConnectionAssumption DEF Join, CallRecords, At
  <2>2. [NoRefresh EXCEPT !.stage = "post", !.id = call[c].id, !.grant = call[c].grant]
           \in Refreshes
    BY <1>1, FreshType DEF Refreshes, RefreshStages, CallRecords
  <2>3. call[c].server \in Servers
    BY <1>1 DEF CallRecords
  <2> QED
    BY <1>4, <2>1, <2>2, <2>3 DEF Join, google, history
<1>5. ASSUME Issue(c) PROVE TokenTypeOK'
  <2>1. call[c].attempt < MaxAttempts =>
           NextAttempt(c) \in CallRecords
    BY <1>1, ConnectionAssumption DEF NextAttempt, CallRecords
  <2>2. PICK new \in CallRecords : call' = [call EXCEPT ![c] = new]
    <3>1. CASE call' = [call EXCEPT ![c] = Over]
      BY <1>1, <3>1
    <3>2. CASE call' = [call EXCEPT ![c] = SecondRound(c)]
      BY <1>1, <3>2
    <3>3. CASE /\ call[c].attempt < MaxAttempts
               /\ call' = [call EXCEPT ![c] = NextAttempt(c)]
      BY <2>1, <3>3
    <3>4. \/ call' = [call EXCEPT ![c] = SecondRound(c)]
          \/ call' = [call EXCEPT ![c] = Over]
          \/ /\ call[c].attempt < MaxAttempts
             /\ call' = [call EXCEPT ![c] = NextAttempt(c)]
      <4>1. CASE call[c].round = 1
        BY <1>5, <4>1 DEF Issue
      <4>2. CASE call[c].round # 1
        BY <1>5, <4>2 DEF Issue
      <4> QED
        BY <4>1, <4>2
    <3> QED
      BY <3>1, <3>2, <3>3, <3>4
  <2> QED
    BY <1>5, <2>2, ConnectionAssumption DEF Issue, google, history, Fault
<1> QED
  BY <1>2, <1>3, <1>4, <1>5 DEF CallStep

\* The steps of a refresh.
LEMMA RefreshType ==
    ASSUME TokenTypeOK, NEW s \in Servers, RefreshStep(s) \/ Crash(s)
    PROVE  TokenTypeOK'
<1> USE DEF TokenTypeOK
<1>1. refresh[s] \in Refreshes
  OBVIOUS
<1>2. ASSUME RefreshPost(s) PROVE TokenTypeOK'
  <2>1. NewToken(refresh[s].grant) \in TokenOrNull
    BY <1>1, FreshType DEF Refreshes, TokenOrNull
  <2>2. refresh' \in [Servers -> Refreshes]
    BY <1>1, <1>2, <2>1, ConnectionAssumption DEF RefreshPost, Refreshes, RefreshStages
  <2>3. mints' \in Nat /\ faults' \in 0..MaxFaults
    BY <1>2, ConnectionAssumption DEF RefreshPost, Mint, Fault
  <2> QED
    BY <1>2, <2>2, <2>3 DEF RefreshPost, history
<1>3. ASSUME RefreshStore(s) PROVE TokenTypeOK'
  <2>1. updateAccessToken(conn, refresh[s].id, refresh[s].token)
           \in Connections \cup {NoConnection}
    BY <1>1, StatementsType DEF Refreshes
  <2>2. refresh' \in [Servers -> Refreshes]
    BY <1>1, <1>3 DEF RefreshStore, Refreshes, RefreshStages
  <2> QED
    BY <1>3, <2>1, <2>2, ConnectionAssumption DEF RefreshStore, google, history, Fault
<1>4. ASSUME RefreshSettle(s) PROVE TokenTypeOK'
  <2>1. refresh[s].token \in TokenOrNull
    BY <1>1 DEF Refreshes
  <2>2. ASSUME NEW c \in Calls
        PROVE  [call[c] EXCEPT !.pc = "issue", !.token = refresh[s].token] \in CallRecords
    <3>1. call[c] \in CallRecords
      OBVIOUS
    <3> QED
      BY <2>1, <3>1 DEF CallRecords
  <2> QED
    BY <1>4, <2>2, FreshType DEF RefreshSettle, google, history
<1>5. ASSUME RefreshFailed(s) PROVE TokenTypeOK'
  <2>1. \A status \in CONNECTION_STATUSES :
           markConnectionFailed(conn, refresh[s].id, status) \in Connections \cup {NoConnection}
    BY <1>1, StatementsType DEF Refreshes
  <2>2. /\ refresh' \in [Servers -> Refreshes]
        /\ call' \in [Calls -> CallRecords]
    <3>1. Reject(s, At(s, "denied")) \/ Reject(s, FALSE)
      BY <1>5 DEF RefreshFailed
    <3>2. At(s, "denied") \in BOOLEAN
      BY DEF At
    <3> QED
      BY <3>1, <3>2, RejectType
  <2>3. conn' \in Connections \cup {NoConnection}
    BY <1>5, <2>1 DEF RefreshFailed, CONNECTION_STATUSES
  <2>4. faults' \in 0..MaxFaults
    <3>1. Fault \/ UNCHANGED faults
      BY <1>5 DEF RefreshFailed
    <3> QED
      BY <3>1, ConnectionAssumption DEF Fault
  <2>5. UNCHANGED <<rows, google, held, removal, history>>
    BY <1>5 DEF RefreshFailed
  <2> QED
    BY <2>2, <2>3, <2>4, <2>5 DEF google, history
<1>6. ASSUME Crash(s) PROVE TokenTypeOK'
  BY <1>6, FreshType, ConnectionAssumption DEF Crash, google, history, Fault
<1> QED
  BY <1>2, <1>3, <1>4, <1>5, <1>6 DEF RefreshStep

\* The world, the callback and the disconnect request.
LEMMA OtherType ==
    ASSUME TokenTypeOK,
           \/ World
           \/ \E a \in Admins : DisconnectStep(a)
           \/ \E g \in Grants : Exchange(g)
           \/ \E credential \in held : Save(credential) \/ Lose(credential)
    PROVE  TokenTypeOK'
<1> USE ConnectionAssumption DEF TokenTypeOK, Fault
<1>1. ASSUME NEW g \in Grants, UserRevokes(g) PROVE TokenTypeOK'
  BY <1>1 DEF UserRevokes, history
<1>2. ASSUME TokenAges PROVE TokenTypeOK'
  <2>1. conn' \in Connections
    BY <1>2 DEF TokenAges, Connections
  <2> QED
    BY <1>2, <2>1 DEF TokenAges, google, history
<1>3. ASSUME conn # NoConnection, conn.token # NoToken, TokenLapses(conn.token)
      PROVE  TokenTypeOK'
  <2>1. conn.token \in Tokens
    BY <1>3 DEF Connections, TokenOrNull
  <2> QED
    BY <1>3, <2>1 DEF TokenLapses, history
<1>4. ASSUME NEW a \in Admins, DisconnectStep(a) PROVE TokenTypeOK'
  <2>1. removal[a] \in Removals
    OBVIOUS
  <2>2. ASSUME DisconnectRead(a) PROVE TokenTypeOK'
    <3>1. conn.grant \in Grants
      BY <2>2 DEF DisconnectRead, Connections
    <3> QED
      BY <2>2, <3>1 DEF DisconnectRead, Removals, google, history
  <2>3. ASSUME DisconnectRevoke(a) PROVE TokenTypeOK'
    BY <2>1, <2>3 DEF DisconnectRevoke, Removals, history
  <2>4. ASSUME DisconnectDelete(a) PROVE TokenTypeOK'
    BY <2>1, <2>4, FreshType DEF DisconnectDelete, Removals, google
  <2> QED
    BY <1>4, <2>2, <2>3, <2>4 DEF DisconnectStep
<1>5. ASSUME NEW g \in Grants, Exchange(g) PROVE TokenTypeOK'
  BY <1>5, FreshType DEF Exchange, Mint, history
<1>6. ASSUME NEW credential \in held, Save(credential) PROVE TokenTypeOK'
  <2>1. saveConnection(conn, credential) \in Connections
    BY DEF saveConnection, Connections, CONNECTION_STATUSES, Tokens, TokenOrNull
  <2>2. Stored(credential) => /\ conn' \in Connections /\ rows' \in Nat
                              /\ overtaken' \in BOOLEAN
                              /\ call' \in [Calls -> CallRecords]
    <3>1. ASSUME NEW c \in Calls PROVE [call[c] EXCEPT !.cutOff = FALSE] \in CallRecords
      <4>1. call[c] \in CallRecords
        OBVIOUS
      <4> QED
        BY <4>1 DEF CallRecords
    <3> QED
      BY <2>1, <3>1 DEF Stored
  <2> QED
    BY <1>6, <2>2 DEF Save, google
<1>7. ASSUME NEW credential \in held, Lose(credential) PROVE TokenTypeOK'
  BY <1>7 DEF Lose, google, history
<1> QED
  BY <1>1, <1>2, <1>3, <1>4, <1>5, <1>6, <1>7 DEF World

\* Every variable stays within its type.
LEMMA TypeStep == TokenTypeOK /\ [Next]_vars => TokenTypeOK'
<1>1. TokenTypeOK /\ Next => TokenTypeOK'
  BY CallType, RefreshType, OtherType DEF Next, Service
<1>2. TokenTypeOK /\ UNCHANGED vars => TokenTypeOK'
  BY DEF TokenTypeOK, vars, google, history
<1> QED
  BY <1>1, <1>2

\* Type correctness: what the servers, calls, callbacks and disconnects of the
\* token store hold, and the row, are of their types.
THEOREM TokenTypes == Spec => []TokenTypeOK
  BY TypeInit, TypeStep, PTL DEF Spec
---------------------------------------------------------------------------
(* Steps of calls, by what they make of a call *)

\* What each step leaves of a call.
LEMMA CallForms ==
    ASSUME NEW c \in Calls, call[c] \in CallRecords
    PROVE  /\ /\ Over.pc = "idle" /\ Over.round = 1 /\ Over.id = 0
              /\ Over.grant = FirstGrant /\ Over.token = NoToken
              /\ Over.refused = NoToken /\ ~Over.stored /\ ~Over.cutOff
           /\ /\ ToJoin(c).pc = "join" /\ ToJoin(c).round = call[c].round
              /\ ToJoin(c).server = call[c].server
              /\ ToJoin(c).id = conn.id /\ ToJoin(c).grant = conn.grant
              /\ ToJoin(c).token = call[c].token /\ ToJoin(c).refused = call[c].refused
              /\ ToJoin(c).stored = call[c].stored /\ ToJoin(c).cutOff = call[c].cutOff
           /\ /\ NextAttempt(c).pc = call[c].pc /\ NextAttempt(c).round = call[c].round
              /\ NextAttempt(c).server = call[c].server
              /\ NextAttempt(c).id = call[c].id /\ NextAttempt(c).grant = call[c].grant
              /\ NextAttempt(c).token = call[c].token
              /\ NextAttempt(c).refused = call[c].refused
              /\ NextAttempt(c).stored = call[c].stored
              /\ NextAttempt(c).cutOff = call[c].cutOff
           /\ /\ SecondRound(c).pc = "ask" /\ SecondRound(c).round = 2
              /\ SecondRound(c).server = call[c].server
              /\ SecondRound(c).id = call[c].id /\ SecondRound(c).grant = call[c].grant
              /\ SecondRound(c).token = NoToken /\ SecondRound(c).refused = call[c].token
              /\ SecondRound(c).stored = FALSE /\ SecondRound(c).cutOff = call[c].cutOff
<1>1. /\ Over.pc = "idle" /\ Over.round = 1 /\ Over.id = 0
      /\ Over.grant = FirstGrant /\ Over.token = NoToken
      /\ Over.refused = NoToken /\ ~Over.stored /\ ~Over.cutOff
  BY DEF Over
<1>2. /\ ToJoin(c).pc = "join" /\ ToJoin(c).round = call[c].round
      /\ ToJoin(c).server = call[c].server
      /\ ToJoin(c).id = conn.id /\ ToJoin(c).grant = conn.grant
      /\ ToJoin(c).token = call[c].token /\ ToJoin(c).refused = call[c].refused
      /\ ToJoin(c).stored = call[c].stored /\ ToJoin(c).cutOff = call[c].cutOff
  BY DEF ToJoin, CallRecords
<1>3. /\ NextAttempt(c).pc = call[c].pc /\ NextAttempt(c).round = call[c].round
      /\ NextAttempt(c).server = call[c].server
      /\ NextAttempt(c).id = call[c].id /\ NextAttempt(c).grant = call[c].grant
      /\ NextAttempt(c).token = call[c].token
      /\ NextAttempt(c).refused = call[c].refused
      /\ NextAttempt(c).stored = call[c].stored
      /\ NextAttempt(c).cutOff = call[c].cutOff
  BY DEF NextAttempt, CallRecords
<1>4. /\ SecondRound(c).pc = "ask" /\ SecondRound(c).round = 2
      /\ SecondRound(c).server = call[c].server
      /\ SecondRound(c).id = call[c].id /\ SecondRound(c).grant = call[c].grant
      /\ SecondRound(c).token = NoToken /\ SecondRound(c).refused = call[c].token
      /\ SecondRound(c).stored = FALSE /\ SecondRound(c).cutOff = call[c].cutOff
  BY DEF SecondRound, CallRecords
<1> QED
  BY <1>1, <1>2, <1>3, <1>4

\* Asking ends the call, gives it the stored token, or sends it to a refresh.
LEMMA AskEffect ==
    ASSUME TokenTypeOK, NEW c \in Calls, Ask(c)
    PROVE  /\ call[c].pc = "ask"
           /\ \/ call'[c] = Over
              \/ /\ isActive(conn) /\ call[c].round = 1 /\ conn.token # NoToken
                 /\ call'[c] = [call[c] EXCEPT !.pc = "issue", !.token = conn.token]
              \/ isActive(conn) /\ call'[c] = ToJoin(c)
           /\ \A d \in Calls \ {c} : call'[d] = call[d]
           /\ UNCHANGED <<conn, rows, google, held, refresh, removal, history>>
  BY DEF Ask, TokenTypeOK, isUsable

\* A request that was issued is over, enters its second round or is repeated.
LEMMA IssueEffect ==
    ASSUME TokenTypeOK, NEW c \in Calls, Issue(c)
    PROVE  /\ call[c].pc = "issue"
           /\ \/ call'[c] = Over
              \/ call[c].round = 1 /\ call'[c] = SecondRound(c)
              \/ call[c].attempt < MaxAttempts /\ call'[c] = NextAttempt(c)
           /\ \A d \in Calls \ {c} : call'[d] = call[d]
           /\ UNCHANGED <<conn, rows, google, held, refresh, removal, history>>
<1>1. CASE call[c].round = 1
  BY <1>1 DEF Issue, TokenTypeOK
<1>2. CASE call[c].round # 1
  BY <1>2 DEF Issue, TokenTypeOK
<1> QED
  BY <1>1, <1>2

\* A failed refresh is cleared, and its waiters are over or in a second round.
LEMMA RejectEffect ==
    ASSUME NEW s \in Servers, RefreshFailed(s)
    PROVE  /\ refresh[s].stage \in {"revoked", "error", "denied"}
           /\ refresh' = [refresh EXCEPT ![s] = NoRefresh]
           /\ \A c \in Calls :
                 /\ c \notin Waiting(s) => call'[c] = call[c]
                 /\ c \in Waiting(s) => call'[c] = Over \/ call'[c] = SecondRound(c)
           /\ UNCHANGED <<rows, google, held, removal, history>>
<1>1. Reject(s, At(s, "denied")) \/ Reject(s, FALSE)
  BY DEF RefreshFailed
<1>2. ASSUME NEW unauthorized, Reject(s, unauthorized)
      PROVE  /\ refresh' = [refresh EXCEPT ![s] = NoRefresh]
             /\ \A c \in Calls :
                 /\ c \notin Waiting(s) => call'[c] = call[c]
                 /\ c \in Waiting(s) => call'[c] = Over \/ call'[c] = SecondRound(c)
  BY <1>2 DEF Reject
<1> QED
  BY <1>1, <1>2 DEF RefreshFailed

\* Saving changes nothing of a call but its mark.
LEMMA SaveEffect ==
    ASSUME TokenTypeOK, NEW credential \in held, Save(credential)
    PROVE  /\ \/ UNCHANGED <<conn, rows, overtaken, call>>
              \/ /\ Stored(credential)
                 /\ \A c \in Calls :
                       /\ ~call'[c].cutOff
                       /\ call'[c].pc = call[c].pc /\ call'[c].round = call[c].round
                       /\ call'[c].server = call[c].server
                       /\ call'[c].id = call[c].id /\ call'[c].grant = call[c].grant
                       /\ call'[c].token = call[c].token
                       /\ call'[c].refused = call[c].refused
                       /\ call'[c].stored = call[c].stored
           /\ held' = held \ {credential}
           /\ UNCHANGED <<google, refresh, removal, removed>>
<1>1. ASSUME Stored(credential), NEW c \in Calls
      PROVE  /\ ~call'[c].cutOff
             /\ call'[c].pc = call[c].pc /\ call'[c].round = call[c].round
             /\ call'[c].server = call[c].server
             /\ call'[c].id = call[c].id /\ call'[c].grant = call[c].grant
             /\ call'[c].token = call[c].token
             /\ call'[c].refused = call[c].refused
             /\ call'[c].stored = call[c].stored
  <2>1. call[c] \in CallRecords /\ call'[c] = [call[c] EXCEPT !.cutOff = FALSE]
    BY <1>1 DEF Stored, TokenTypeOK
  <2> QED
    BY <2>1 DEF CallRecords
<1> QED
  BY <1>1 DEF Save

---------------------------------------------------------------------------
(* Waiting for a refresh *)

\* At first nobody waits.
LEMMA WaitingInit == Init => NobodyLeftWaiting
  BY DEF Init, NobodyLeftWaiting, Over

\* Who waits for a refresh goes on waiting for that same one.
LEMMA WaitingStep ==
    TokenTypeOK /\ NobodyLeftWaiting /\ [Next]_vars => NobodyLeftWaiting'
<1> SUFFICES ASSUME TokenTypeOK, NobodyLeftWaiting, [Next]_vars
             PROVE  NobodyLeftWaiting'
  OBVIOUS
<1> USE DEF NobodyLeftWaiting, InFlight, At
<1>0. /\ refresh \in [Servers -> Refreshes] /\ call \in [Calls -> CallRecords]
      /\ \A c \in Calls : call[c] \in CallRecords /\ call[c].server \in Servers
  BY DEF TokenTypeOK, CallRecords
<1>1. ASSUME NEW c \in Calls, NEW s \in Servers, CallStart(c, s)
      PROVE  NobodyLeftWaiting'
  <2>1. call'[c].pc = "ask" /\ \A d \in Calls \ {c} : call'[d] = call[d]
    BY <1>0, <1>1 DEF CallStart, Over
  <2> QED
    BY <1>1, <2>1 DEF CallStart
<1>2. ASSUME NEW c \in Calls, Ask(c) PROVE NobodyLeftWaiting'
  <2>1. call'[c].pc # "wait" /\ \A d \in Calls \ {c} : call'[d] = call[d]
    <3>1. [call[c] EXCEPT !.pc = "issue", !.token = conn.token].pc = "issue"
      BY <1>0 DEF CallRecords
    <3> QED
      BY <1>0, <1>2, <3>1, AskEffect, CallForms
  <2> QED
    BY <1>2, <2>1, AskEffect
<1>3. ASSUME NEW c \in Calls, Join(c) PROVE NobodyLeftWaiting'
  <2>1. /\ call'[c].server = call[c].server
        /\ \A d \in Calls \ {c} : call'[d] = call[d]
    BY <1>0, <1>3 DEF Join, CallRecords
  <2>2. /\ refresh'[call[c].server].stage # "none"
        /\ \A s \in Servers \ {call[c].server} : refresh'[s] = refresh[s]
        /\ refresh[call[c].server].stage # "none" => refresh' = refresh
    BY <1>0, <1>3 DEF Join, NoRefresh
  <2> QED
    BY <1>0, <2>1, <2>2
<1>4. ASSUME NEW c \in Calls, Issue(c) PROVE NobodyLeftWaiting'
  <2>1. call'[c].pc # "wait" /\ \A d \in Calls \ {c} : call'[d] = call[d]
    BY <1>0, <1>4, IssueEffect, CallForms
  <2>2. refresh' = refresh
    BY <1>4, IssueEffect
  <2> QED
    BY <2>1, <2>2
<1>5. ASSUME NEW s \in Servers, RefreshPost(s) \/ RefreshStore(s)
      PROVE  NobodyLeftWaiting'
  <2>1. /\ refresh'[s].stage # "none" /\ call' = call
        /\ \A t \in Servers \ {s} : refresh'[t] = refresh[t]
    BY <1>0, <1>5 DEF RefreshPost, RefreshStore, Refreshes
  <2> QED
    BY <1>0, <2>1
<1>6. ASSUME NEW s \in Servers, RefreshSettle(s) \/ RefreshFailed(s) \/ Crash(s)
      PROVE  NobodyLeftWaiting'
  <2>1. \A t \in Servers \ {s} : refresh'[t] = refresh[t]
    BY <1>0, <1>6, RejectEffect DEF RefreshSettle, Crash
  <2>2. ASSUME NEW c \in Calls
        PROVE  \/ call'[c].pc # "wait"
               \/ call'[c] = call[c] /\ call[c].server # s
    <3>1. CASE RefreshSettle(s)
      BY <1>0, <3>1 DEF RefreshSettle, Waiting, CallRecords
    <3>2. CASE RefreshFailed(s)
      <4>1. Over.pc # "wait" /\ SecondRound(c).pc # "wait"
        BY <1>0, CallForms
      <4> QED
        BY <1>0, <3>2, <4>1, RejectEffect DEF Waiting
    <3>3. CASE Crash(s)
      BY <1>0, <3>3 DEF Crash, Over
    <3> QED
      BY <1>6, <3>1, <3>2, <3>3
  <2> QED
    BY <1>0, <2>1, <2>2
<1>7. ASSUME UNCHANGED <<refresh, call>> PROVE NobodyLeftWaiting'
  BY <1>7
<1>8. ASSUME NEW credential \in held, Save(credential) PROVE NobodyLeftWaiting'
  <2>1. /\ refresh' = refresh
        /\ \A c \in Calls : call'[c].pc = call[c].pc /\ call'[c].server = call[c].server
    BY <1>8, SaveEffect
  <2> QED
    BY <2>1
<1> QED
  BY <1>1, <1>2, <1>3, <1>4, <1>5, <1>6, <1>7, <1>8
  DEF Next, Service, CallStep, RefreshStep, World, DisconnectStep, vars,
      UserRevokes, TokenAges, TokenLapses, Exchange, Lose,
      DisconnectRead, DisconnectRevoke, DisconnectDelete

\* Nobody waits for a refresh that is over, on however many servers: joining
\* the refresh in flight is safe.
THEOREM WaitersAreHeard == Spec => []NobodyLeftWaiting
<1>1. Init => TokenTypeOK /\ NobodyLeftWaiting
  BY TypeInit, WaitingInit
<1>2. TokenTypeOK /\ NobodyLeftWaiting /\ [Next]_vars
         => (TokenTypeOK /\ NobodyLeftWaiting)'
  BY TypeStep, WaitingStep
<1> QED
  BY <1>1, <1>2, PTL DEF Spec

---------------------------------------------------------------------------
(* Calls without a connection *)

\* The invariant: as long as such a call lives, there is no row to read.
CutOffInv ==
    \A c \in Calls :
        call[c].cutOff => /\ call[c].pc \in {"idle", "ask"}
                          /\ call[c].pc = "ask" => conn = NoConnection

\* A row appears by being saved only, and that clears the mark.
LEMMA CutOffStep ==
    TokenTypeOK /\ CutOffInv /\ [Next]_vars => CutOffInv'
<1> SUFFICES ASSUME TokenTypeOK, CutOffInv, [Next]_vars PROVE CutOffInv'
  OBVIOUS
<1> USE DEF CutOffInv
<1>0. /\ refresh \in [Servers -> Refreshes] /\ call \in [Calls -> CallRecords]
      /\ \A c \in Calls : call[c] \in CallRecords
      /\ \A s \in Servers : refresh[s] \in Refreshes /\ refresh[s].id \in Nat
                            /\ refresh[s].token \in TokenOrNull
      /\ conn \in Connections \cup {NoConnection}
  BY DEF TokenTypeOK, Refreshes
<1>1. ASSUME NEW c \in Calls, NEW s \in Servers, CallStart(c, s) PROVE CutOffInv'
  BY <1>0, <1>1 DEF CallStart, Over
<1>2. ASSUME NEW c \in Calls, Ask(c) PROVE CutOffInv'
  <2>1. \A d \in Calls \ {c} : call'[d] = call[d]
    BY <1>0, <1>2 DEF Ask
  <2>2. call'[c].cutOff => isActive(conn) /\ call[c].cutOff
    <3>1. [call[c] EXCEPT !.pc = "issue", !.token = conn.token].cutOff = call[c].cutOff
      BY <1>0 DEF CallRecords
    <3>2. ~Over.cutOff /\ ToJoin(c).cutOff = call[c].cutOff
      BY <1>0, CallForms
    <3>3. \/ call'[c] = Over
          \/ /\ isActive(conn)
             /\ \/ call'[c] = ToJoin(c)
                \/ call'[c] = [call[c] EXCEPT !.pc = "issue", !.token = conn.token]
      BY <1>2, AskEffect
    <3> QED
      BY <3>1, <3>2, <3>3, Zenon
  <2> QED
    BY <1>2, <2>1, <2>2, AskEffect DEF isActive
<1>3. ASSUME NEW c \in Calls, Join(c) PROVE CutOffInv'
  BY <1>0, <1>3 DEF Join, CallRecords
<1>4. ASSUME NEW c \in Calls, Issue(c) PROVE CutOffInv'
  <2>1. call'[c].cutOff => call[c].cutOff
    <3>1. /\ ~Over.cutOff
          /\ NextAttempt(c).cutOff = call[c].cutOff
          /\ SecondRound(c).cutOff = call[c].cutOff
      BY <1>0, CallForms
    <3>2. call'[c] \in {Over, NextAttempt(c), SecondRound(c)}
      BY <1>4, IssueEffect
    <3> QED
      BY <3>1, <3>2, Zenon
  <2>2. conn' = conn /\ call[c].pc = "issue" /\ \A d \in Calls \ {c} : call'[d] = call[d]
    BY <1>4, IssueEffect
  <2> QED
    BY <2>1, <2>2
<1>5. ASSUME conn = NoConnection => conn' = NoConnection,
             \A c \in Calls : call'[c] = call[c] \/ ~call'[c].cutOff
      PROVE  CutOffInv'
  BY <1>5
<1>6. ASSUME NEW s \in Servers, RefreshStep(s) \/ Crash(s) PROVE CutOffInv'
  <2>1. conn = NoConnection => conn' = NoConnection
    <3>1. CASE RefreshStore(s)
      BY <1>0, <3>1 DEF RefreshStore, updateAccessToken, matchesId
    <3>2. CASE RefreshFailed(s)
      BY <1>0, <3>2 DEF RefreshFailed, markConnectionFailed, matchesId
    <3> QED
      BY <1>6, <3>1, <3>2 DEF RefreshStep, RefreshPost, RefreshSettle, Crash
  <2>2. ASSUME NEW c \in Calls
        PROVE  call'[c] = call[c] \/ ~call'[c].cutOff
    <3>1. CASE RefreshSettle(s)
      BY <1>0, <3>1 DEF RefreshSettle, Waiting, CallRecords
    <3>2. CASE RefreshFailed(s)
      BY <1>0, <3>2, RejectEffect, CallForms DEF Waiting
    <3>3. CASE Crash(s)
      BY <1>0, <3>3 DEF Crash, Over
    <3> QED
      BY <1>6, <3>1, <3>2, <3>3 DEF RefreshStep, RefreshPost, RefreshStore
  <2> QED
    BY <1>5, <2>1, <2>2
<1>7. ASSUME NEW credential \in held, Save(credential) PROVE CutOffInv'
  BY <1>7, SaveEffect
<1>8. ASSUME call' = call, conn = NoConnection => conn' = NoConnection PROVE CutOffInv'
  BY <1>8
<1> QED
  BY <1>1, <1>2, <1>3, <1>4, <1>6, <1>7, <1>8
  DEF Next, Service, CallStep, World, DisconnectStep, vars,
      UserRevokes, TokenAges, TokenLapses, Exchange, Lose,
      DisconnectRead, DisconnectRevoke, DisconnectDelete

\* Without a connection there is no token to be had, although a refresh of the
\* deleted one may still be in flight on any server.
THEOREM CutOffIsServedNothing == Spec => []NoServiceWhenCutOff
<1>1. Init => TokenTypeOK /\ CutOffInv
  <2>1. Init => CutOffInv
    BY DEF Init, CutOffInv, Over
  <2> QED
    BY <2>1, TypeInit
<1>2. TokenTypeOK /\ CutOffInv /\ [Next]_vars => (TokenTypeOK /\ CutOffInv)'
  BY TypeStep, CutOffStep
<1>3. CutOffInv => NoServiceWhenCutOff
  BY DEF CutOffInv, NoServiceWhenCutOff
<1> QED
  BY <1>1, <1>2, <1>3, PTL DEF Spec
---------------------------------------------------------------------------
(* The credentials of deleted rows *)

\* The invariant: a credential that Google has issued is held by one callback,
\* or stored, or gone; a disconnect knows only one that was stored.
OwnedOnce ==
    /\ removed \subseteq issued
    /\ conn # NoConnection => conn.grant \in issued \ removed
    /\ \A a \in Admins : removal[a].pc # "idle" =>
          /\ removal[a].grant \in issued
          /\ \A t \in held : t.grant # removal[a].grant
    /\ \A t \in held :
          /\ t.grant \in issued \ removed
          /\ conn # NoConnection => t.grant # conn.grant
          /\ \A u \in held : u # t => u.grant # t.grant

\* Nothing but an exchange issues a credential, nothing but a save stores one.
LEMMA OwnedStep ==
    TokenTypeOK /\ OwnedOnce /\ [Next]_vars => OwnedOnce'
<1> SUFFICES ASSUME TokenTypeOK, OwnedOnce, [Next]_vars PROVE OwnedOnce'
  OBVIOUS
<1> USE DEF OwnedOnce
<1>0. /\ conn \in Connections \cup {NoConnection}
      /\ removal \in [Admins -> Removals]
      /\ \A s \in Servers : refresh[s].id \in Nat /\ refresh[s].token \in TokenOrNull
  BY DEF TokenTypeOK, Refreshes
<1>1. ASSUME \/ conn' = conn
             \/ conn # NoConnection /\ conn' # NoConnection /\ conn'.grant = conn.grant,
             UNCHANGED <<issued, held, removal, removed>>
      PROVE  OwnedOnce'
  BY <1>1
<1>2. ASSUME NEW s \in Servers, RefreshStep(s) \/ Crash(s) PROVE OwnedOnce'
  <2>1. \/ conn' = conn
        \/ conn # NoConnection /\ conn' # NoConnection /\ conn'.grant = conn.grant
    <3>1. CASE RefreshStore(s)
      BY <1>0, <3>1, StatementsType DEF RefreshStore
    <3>2. CASE RefreshFailed(s)
      <4>1. \E status \in CONNECTION_STATUSES :
               conn' = conn \/ conn' = markConnectionFailed(conn, refresh[s].id, status)
        BY <3>2 DEF RefreshFailed, CONNECTION_STATUSES
      <4> QED
        BY <1>0, <4>1, StatementsType
    <3> QED
      BY <1>2, <3>1, <3>2 DEF RefreshStep, RefreshPost, RefreshSettle, Crash
  <2>2. UNCHANGED <<issued, held, removal, removed>>
    BY <1>2, RejectEffect
    DEF RefreshStep, RefreshPost, RefreshStore, RefreshSettle, Crash, google, history
  <2> QED
    BY <1>1, <2>1, <2>2
<1>3. ASSUME NEW c \in Calls, CallStep(c) \/ \E s \in Servers : CallStart(c, s)
      PROVE  OwnedOnce'
  BY <1>1, <1>3, AskEffect, IssueEffect DEF CallStep, CallStart, Join, google, history
<1>4. ASSUME World PROVE OwnedOnce'
  <2>1. CASE TokenAges
    <3>1. conn # NoConnection /\ conn' # NoConnection /\ conn'.grant = conn.grant
      BY <1>0, <2>1, ConnectionAssumption DEF TokenAges, Connections
    <3> QED
      BY <1>1, <2>1, <3>1 DEF TokenAges, google, history
  <2> QED
    BY <1>1, <1>4, <2>1 DEF World, UserRevokes, TokenLapses, history
<1>5. ASSUME NEW a \in Admins, DisconnectStep(a) PROVE OwnedOnce'
  <2>1. CASE DisconnectRead(a)
    <3>1. /\ removal'[a].grant = conn.grant
          /\ \A b \in Admins \ {a} : removal'[b] = removal[b]
      BY <1>0, <2>1 DEF DisconnectRead
    <3> QED
      BY <2>1, <3>1 DEF DisconnectRead, google, history
  <2>2. CASE DisconnectRevoke(a)
    <3>1. \A b \in Admins : removal'[b].pc # "idle" =>
             removal[b].pc # "idle" /\ removal'[b].grant = removal[b].grant
      BY <1>0, <2>2 DEF DisconnectRevoke, Removals
    <3> QED
      BY <2>2, <3>1 DEF DisconnectRevoke, history
  <2>3. CASE DisconnectDelete(a)
    <3>1. \A b \in Admins : removal'[b].pc # "idle" => removal'[b] = removal[b]
      BY <1>0, <2>3 DEF DisconnectDelete, NoRemoval
    <3>2. removal[a].pc # "idle"
      BY <2>3 DEF DisconnectDelete
    <3>3. CASE removed' = removed
      BY <2>3, <3>1, <3>3 DEF DisconnectDelete, google
    <3>4. CASE conn' = NoConnection /\ removed' = removed \cup {removal[a].grant}
      BY <2>3, <3>1, <3>2, <3>4 DEF DisconnectDelete, google
    <3> QED
      BY <2>3, <3>3, <3>4 DEF DisconnectDelete
  <2> QED
    BY <1>5, <2>1, <2>2, <2>3 DEF DisconnectStep
<1>6. ASSUME NEW g \in Grants, Exchange(g) PROVE OwnedOnce'
  <2>1. NewToken(g).grant = g
    BY DEF NewToken
  <2>2. CASE held' = held
    BY <1>6, <2>2 DEF Exchange, history
  <2>3. CASE held' = held \cup {NewToken(g)}
    BY <1>6, <2>1, <2>3 DEF Exchange, history
  <2> QED
    BY <1>6, <2>2, <2>3 DEF Exchange
<1>7. ASSUME NEW credential \in held, Save(credential) PROVE OwnedOnce'
  <2>1. /\ held' = held \ {credential}
        /\ UNCHANGED <<issued, removal, removed>>
    BY <1>7, SaveEffect DEF google
  <2>2. conn' = conn \/ conn'.grant = credential.grant
    <3>1. saveConnection(conn, credential).grant = credential.grant
      BY DEF saveConnection
    <3> QED
      BY <1>7, <3>1, SaveEffect DEF Stored
  <2> QED
    BY <2>1, <2>2
<1>8. ASSUME NEW credential \in held, Lose(credential) PROVE OwnedOnce'
  BY <1>8 DEF Lose, google, history
<1>9. ASSUME UNCHANGED vars PROVE OwnedOnce'
  BY <1>9 DEF vars, google, history
<1> QED
  BY <1>2, <1>3, <1>4, <1>5, <1>6, <1>7, <1>8, <1>9 DEF Next, Service

\* A disconnect that went through is final for the credential it was about,
\* whatever the refreshes and callbacks under way do afterwards.
THEOREM RemovedIsFinal == Spec => []RemovedStaysRemoved
<1>1. Init => TokenTypeOK /\ OwnedOnce
  <2>1. Init => OwnedOnce
    BY DEF Init, OwnedOnce, NoRemoval
  <2> QED
    BY <2>1, TypeInit
<1>2. TokenTypeOK /\ OwnedOnce /\ [Next]_vars => (TokenTypeOK /\ OwnedOnce)'
  BY TypeStep, OwnedStep
<1>3. OwnedOnce => RemovedStaysRemoved
  BY DEF OwnedOnce, RemovedStaysRemoved
<1> QED
  BY <1>1, <1>2, <1>3, PTL DEF Spec
---------------------------------------------------------------------------
(* The row and its credential *)

\* What a refresh has in its hands: a token of its grant, or Google's word that
\* the grant is dead.
RefreshInv ==
    \A s \in Servers :
        /\ ~InFlight(s) => refresh[s].id = 0
        /\ refresh[s].id <= rows
        /\ refresh[s].stage \in {"store", "settle"} =>
              refresh[s].token \in Tokens /\ refresh[s].token.grant = refresh[s].grant
        /\ refresh[s].stage = "revoked" => refresh[s].grant \in dead

\* Which row a refresh or a call is about, and that the row still has the grant
\* they read unless it was saved over them.
RowIds ==
    /\ conn # NoConnection => conn.id \in 1..rows
    /\ \A c \in Calls : call[c].id <= rows /\ (call[c].pc # "join" => call[c].id = 0)
    /\ ~overtaken /\ conn # NoConnection =>
          /\ \A s \in Servers : refresh[s].id = conn.id => refresh[s].grant = conn.grant
          /\ \A c \in Calls : call[c].id = conn.id => call[c].grant = conn.grant

RowInv == RefreshInv /\ RowIds /\ RowMatchesCredential

\* The first row, and nobody else.
LEMMA RowInit == Init => RowInv
<1> SUFFICES ASSUME Init PROVE RowInv
  OBVIOUS
<1>1. /\ conn # NoConnection /\ conn.id = 1 /\ conn.status = "ACTIVE"
      /\ conn.grant = FirstGrant /\ conn.token.grant = FirstGrant
  <2>1. conn \in Connections
    BY ConnectionAssumption
    DEF Init, Connections, CONNECTION_STATUSES, TokenOrNull, Tokens
  <2> QED
    BY <2>1, ConnectionAssumption DEF Init
<1>2. \A s \in Servers : refresh[s].id = 0 /\ refresh[s].stage = "none"
  BY DEF Init, NoRefresh
<1>3. \A c \in Calls : call[c].id = 0
  BY DEF Init, Over
<1>4. rows = 1
  BY DEF Init
<1> QED
  BY <1>1, <1>2, <1>3, <1>4 DEF RowInv, RefreshInv, RowIds, RowMatchesCredential, InFlight, At

\* Steps that leave the row, the refreshes and what calls are about alone.
LEMMA RowUntouched ==
    ASSUME TokenTypeOK, RowInv, dead \subseteq dead',
           UNCHANGED <<conn, rows, refresh, overtaken>>,
           \A c \in Calls : \/ call'[c].id = 0
                            \/ /\ call'[c].id = call[c].id /\ call'[c].grant = call[c].grant
                               /\ call'[c].pc = "join"
    PROVE  RowInv'
<1>1. conn # NoConnection => conn.id # 0
  BY DEF RowInv, RowIds
<1>2. rows \in Nat
  BY DEF TokenTypeOK
<1> QED
  BY <1>1, <1>2
  DEF RowInv, RefreshInv, RowIds, RowMatchesCredential, InFlight, At

\* The steps of a call: it reads the row, or hands what it read to a refresh.
LEMMA RowCallStep ==
    ASSUME TokenTypeOK, RowInv, NEW c \in Calls,
           CallStep(c) \/ \E s \in Servers : CallStart(c, s)
    PROVE  RowInv'
<1>0. /\ refresh \in [Servers -> Refreshes] /\ call \in [Calls -> CallRecords]
      /\ \A d \in Calls : call[d] \in CallRecords
      /\ call[c].server \in Servers /\ call[c].id \in Nat
      /\ rows \in Nat
      /\ conn \in Connections \cup {NoConnection}
  BY DEF TokenTypeOK, CallRecords
<1>1. \A d \in Calls : \/ call[d].id = 0
                       \/ call[d].pc = "join"
  BY DEF RowInv, RowIds
<1>2. /\ Over.id = 0
      /\ SecondRound(c).id = call[c].id /\ NextAttempt(c).id = call[c].id
      /\ ToJoin(c).id = conn.id /\ ToJoin(c).grant = conn.grant /\ ToJoin(c).pc = "join"
      /\ [call[c] EXCEPT !.pc = "issue", !.token = conn.token].id = call[c].id
  <2>1. [call[c] EXCEPT !.pc = "issue", !.token = conn.token].id = call[c].id
    BY <1>0 DEF CallRecords
  <2> QED
    BY <1>0, <2>1, CallForms
<1>3. ASSUME NEW s \in Servers, CallStart(c, s) PROVE RowInv'
  <2>1. call'[c].id = 0 /\ \A d \in Calls \ {c} : call'[d] = call[d]
    BY <1>0, <1>3 DEF CallStart, Over
  <2>2. UNCHANGED <<conn, rows, refresh, overtaken, dead>>
    BY <1>3 DEF CallStart, google, history
  <2> QED
    BY <1>1, <2>1, <2>2, RowUntouched
<1>4. ASSUME Issue(c) PROVE RowInv'
  <2>1. call'[c].id = 0 /\ \A d \in Calls \ {c} : call'[d] = call[d]
    BY <1>1, <1>2, <1>4, IssueEffect
  <2>2. UNCHANGED <<conn, rows, refresh, overtaken, dead>>
    BY <1>4, IssueEffect DEF google, history
  <2> QED
    BY <1>1, <2>1, <2>2, RowUntouched
<1>5. ASSUME Ask(c) PROVE RowInv'
  <2>1. /\ \A d \in Calls \ {c} : call'[d] = call[d]
        /\ UNCHANGED <<conn, rows, refresh, overtaken, dead>>
    BY <1>5, AskEffect DEF google, history
  <2>2. CASE call'[c].id = 0
    BY <1>1, <2>1, <2>2, RowUntouched
  <2>3. CASE isActive(conn) /\ call'[c] = ToJoin(c)
    <3>1. /\ conn # NoConnection /\ call'[c].id = conn.id /\ call'[c].grant = conn.grant
          /\ call'[c].pc = "join"
      BY <1>2, <2>3 DEF isActive
    <3> QED
      BY <1>0, <2>1, <3>1
      DEF RowInv, RefreshInv, RowIds, RowMatchesCredential, InFlight, At
  <2>4. call'[c].id = 0 \/ (isActive(conn) /\ call'[c] = ToJoin(c))
    BY <1>1, <1>2, <1>5, AskEffect
  <2> QED
    BY <2>2, <2>3, <2>4
<1>6. ASSUME Join(c) PROVE RowInv'
  <2>1. /\ call'[c].id = 0
        /\ \A d \in Calls \ {c} : call'[d] = call[d]
    BY <1>0, <1>6 DEF Join, CallRecords
  <2>2. UNCHANGED <<conn, rows, overtaken, dead>>
    BY <1>6 DEF Join, google, history
  <2>3. CASE refresh' = refresh
    BY <1>1, <2>1, <2>2, <2>3, RowUntouched
  <2>4. CASE refresh' # refresh
    <3>1. /\ refresh'[call[c].server].stage = "post"
          /\ refresh'[call[c].server].id = call[c].id
          /\ refresh'[call[c].server].grant = call[c].grant
          /\ \A s \in Servers \ {call[c].server} : refresh'[s] = refresh[s]
      BY <1>0, <1>6, <2>4 DEF Join, NoRefresh
    <3>2. RefreshInv'
      BY <1>0, <2>2, <3>1 DEF RowInv, RefreshInv, RowIds, InFlight, At
    <3>3. RowIds'
      <4>1. conn # NoConnection => conn.id # 0
        BY DEF RowInv, RowIds
      <4> QED
        BY <1>0, <2>1, <2>2, <3>1, <4>1 DEF RowInv, RowIds
    <3>4. RowMatchesCredential'
      BY <2>2 DEF RowInv, RowMatchesCredential
    <3> QED
      BY <3>2, <3>3, <3>4 DEF RowInv
  <2> QED
    BY <2>3, <2>4
<1> QED
  BY <1>3, <1>4, <1>5, <1>6 DEF CallStep

\* Clearing a refresh, with the statement that goes before it.
LEMMA RowCleared ==
    ASSUME TokenTypeOK, RowInv, NEW s \in Servers,
           refresh' = [refresh EXCEPT ![s] = NoRefresh],
           UNCHANGED <<conn, rows, dead, overtaken>>,
           \A c \in Calls : call'[c] = call[c] \/ call'[c].id = 0
    PROVE  RowInv'
<1>1. refresh \in [Servers -> Refreshes] /\ rows \in Nat
  BY DEF TokenTypeOK
<1>2. conn # NoConnection => conn.id # 0
  BY DEF RowInv, RowIds
<1>3. /\ refresh'[s].stage = "none" /\ refresh'[s].id = 0
      /\ \A t \in Servers \ {s} : refresh'[t] = refresh[t]
  BY <1>1 DEF NoRefresh
<1>4. RefreshInv'
  BY <1>1, <1>3 DEF RowInv, RefreshInv, InFlight, At
<1>5. RowIds'
  BY <1>1, <1>2, <1>3 DEF RowInv, RowIds
<1> QED
  BY <1>4, <1>5 DEF RowInv, RowMatchesCredential
\* The steps of a refresh: it writes a token of its own grant, and REVOKED only
\* for a grant that Google refused.
LEMMA RowRefreshStep ==
    ASSUME TokenTypeOK, RowInv, NEW s \in Servers, RefreshStep(s) \/ Crash(s)
    PROVE  RowInv'
<1>0. /\ refresh \in [Servers -> Refreshes] /\ call \in [Calls -> CallRecords]
      /\ refresh[s] \in Refreshes /\ refresh[s].id \in Nat
      /\ refresh[s].token \in TokenOrNull
      /\ \A c \in Calls : call[c] \in CallRecords
      /\ rows \in Nat
      /\ conn \in Connections \cup {NoConnection}
  BY DEF TokenTypeOK, Refreshes
<1>1. conn # NoConnection => conn.id # 0
  BY DEF RowInv, RowIds
<1>2. \A c \in Calls : call[c].pc = "wait" => call[c].id = 0
  BY DEF RowInv, RowIds
<1>3. ASSUME refresh'[s].id = refresh[s].id, refresh'[s].grant = refresh[s].grant,
             refresh'[s].stage # "none", refresh[s].stage # "none",
             \A t \in Servers \ {s} : refresh'[t] = refresh[t],
             UNCHANGED <<rows, call, dead, overtaken>>,
             \/ conn' = conn
             \/ /\ conn # NoConnection /\ conn' # NoConnection
                /\ conn'.id = conn.id /\ conn'.grant = conn.grant,
             RowMatchesCredential',
             refresh'[s].stage \in {"store", "settle"} =>
                 refresh'[s].token \in Tokens /\ refresh'[s].token.grant = refresh[s].grant,
             refresh'[s].stage = "revoked" => refresh[s].grant \in dead
      PROVE  RowInv'
  <2>1. RefreshInv'
    BY <1>0, <1>3 DEF RowInv, RefreshInv, InFlight, At
  <2>2. RowIds'
    BY <1>0, <1>3 DEF RowInv, RowIds
  <2> QED
    BY <1>3, <2>1, <2>2 DEF RowInv
<1>4. ASSUME RefreshPost(s) PROVE RowInv'
  <2>1. /\ UNCHANGED <<conn, rows, call, dead, overtaken>>
        /\ \A t \in Servers \ {s} : refresh'[t] = refresh[t]
        /\ refresh[s].stage = "post"
    BY <1>0, <1>4 DEF RefreshPost, history, At
  <2>2. /\ NewToken(refresh[s].grant) \in Tokens
        /\ NewToken(refresh[s].grant).grant = refresh[s].grant
    BY <1>0, FreshType DEF NewToken, Refreshes, TokenTypeOK
  <2>3. /\ refresh'[s].id = refresh[s].id /\ refresh'[s].grant = refresh[s].grant
        /\ \/ refresh'[s].stage = "store" /\ refresh'[s].token = NewToken(refresh[s].grant)
           \/ refresh'[s].stage = "revoked" /\ refresh[s].grant \in dead
           \/ refresh'[s].stage \in {"post", "error", "denied"}
    BY <1>0, <1>4, <2>1 DEF RefreshPost, Refreshes
  <2>4. RowMatchesCredential'
    BY <2>1 DEF RowInv, RowMatchesCredential
  <2> QED
    BY <1>3, <2>1, <2>2, <2>3, <2>4
<1>5. ASSUME RefreshStore(s) PROVE RowInv'
  <2> DEFINE stored == updateAccessToken(conn, refresh[s].id, refresh[s].token)
  <2>1. /\ UNCHANGED <<rows, call, dead, overtaken>>
        /\ \A t \in Servers \ {s} : refresh'[t] = refresh[t]
        /\ refresh[s].stage = "store"
        /\ conn' = conn \/ conn' = stored
        /\ refresh'[s].stage \in {"settle", "error"}
        /\ refresh'[s].id = refresh[s].id /\ refresh'[s].grant = refresh[s].grant
        /\ refresh'[s].token = refresh[s].token
    BY <1>0, <1>5 DEF RefreshStore, google, history, At, Refreshes
  <2>2. refresh[s].token \in Tokens /\ refresh[s].token.grant = refresh[s].grant
    BY <2>1 DEF RowInv, RefreshInv
  <2>3. \/ conn' = conn
        \/ /\ conn # NoConnection /\ conn' # NoConnection
           /\ conn'.id = conn.id /\ conn'.grant = conn.grant
    BY <1>0, <2>1, StatementsType
  <2>4. RowMatchesCredential'
    <3>1. CASE conn' = conn
      BY <2>1, <3>1 DEF RowInv, RowMatchesCredential
    <3>2. CASE conn' # conn
      <4>1. /\ conn # NoConnection /\ conn.id = refresh[s].id
            /\ conn' = [conn EXCEPT !.token = refresh[s].token, !.usable = TRUE,
                                    !.status = "ACTIVE"]
        BY <2>1, <3>2 DEF updateAccessToken, matchesId
      <4>2. /\ conn'.grant = conn.grant /\ conn'.token = refresh[s].token
            /\ conn'.status = "ACTIVE"
        BY <1>0, <4>1 DEF Connections
      <4>3. ~overtaken => conn.grant = refresh[s].grant
        BY <4>1 DEF RowInv, RowIds
      <4> QED
        BY <2>1, <2>2, <4>2, <4>3 DEF RowMatchesCredential
    <3> QED
      BY <3>1, <3>2
  <2> QED
    BY <1>3, <2>1, <2>2, <2>3, <2>4
<1>6. ASSUME \A c \in Calls : \/ call'[c] = call[c]
                              \/ call'[c].id = 0,
             refresh' = [refresh EXCEPT ![s] = NoRefresh],
             UNCHANGED <<conn, rows, dead, overtaken>>
      PROVE  RowInv'
  BY <1>6, RowCleared
<1>7. ASSUME RefreshSettle(s) PROVE RowInv'
  <2>1. ASSUME NEW c \in Calls PROVE call'[c] = call[c] \/ call'[c].id = 0
    <3>1. CASE c \in Waiting(s)
      <4>1. call'[c] = [call[c] EXCEPT !.pc = "issue", !.token = refresh[s].token]
        BY <1>7, <3>1 DEF RefreshSettle
      <4> QED
        BY <1>0, <1>2, <3>1, <4>1 DEF Waiting, CallRecords
    <3>2. CASE c \notin Waiting(s)
      BY <1>7, <3>2 DEF RefreshSettle
    <3> QED
      BY <3>1, <3>2
  <2> QED
    BY <1>6, <1>7, <2>1 DEF RefreshSettle, google, history
<1>8. ASSUME RefreshFailed(s) PROVE RowInv'
  <2>1. ASSUME NEW c \in Calls PROVE call'[c] = call[c] \/ call'[c].id = 0
    <3>1. Over.id = 0 /\ SecondRound(c).id = call[c].id
      BY <1>0, CallForms
    <3> QED
      BY <1>2, <1>8, <3>1, RejectEffect DEF Waiting
  <2>2. /\ refresh' = [refresh EXCEPT ![s] = NoRefresh]
        /\ UNCHANGED <<rows, dead, overtaken>>
    BY <1>8, RejectEffect DEF google, history
  <2>3. CASE conn' = conn
    BY <1>6, <2>1, <2>2, <2>3
  <2>4. CASE conn' # conn
    <3>1. PICK status \in CONNECTION_STATUSES :
             /\ conn' = markConnectionFailed(conn, refresh[s].id, status)
             /\ status = "REVOKED" => refresh[s].stage = "revoked"
      <4>1. CASE At(s, "revoked")
        BY <1>8, <2>4, <4>1 DEF RefreshFailed, CONNECTION_STATUSES, At
      <4>2. CASE ~At(s, "revoked")
        BY <1>8, <2>4, <4>2 DEF RefreshFailed, CONNECTION_STATUSES, At
      <4> QED
        BY <4>1, <4>2
    <3>2. /\ conn # NoConnection /\ conn.id = refresh[s].id
          /\ conn' = [conn EXCEPT !.token = NoToken, !.usable = FALSE, !.status = status]
      BY <2>4, <3>1 DEF markConnectionFailed, matchesId
    <3>3. /\ conn' # NoConnection /\ conn'.id = conn.id /\ conn'.grant = conn.grant
          /\ conn'.token = NoToken /\ conn'.status = status
      BY <1>0, <3>1, <3>2, ConnectionAssumption DEF Connections, TokenOrNull
    <3>4. RowMatchesCredential'
      <4>1. ~overtaken => conn.grant = refresh[s].grant
        BY <3>2 DEF RowInv, RowIds
      <4>2. status = "REVOKED" => refresh[s].grant \in dead
        BY <3>1 DEF RowInv, RefreshInv
      <4> QED
        BY <2>2, <3>3, <4>1, <4>2 DEF RowMatchesCredential
    <3>5. /\ refresh'[s].stage = "none" /\ refresh'[s].id = 0
          /\ \A t \in Servers \ {s} : refresh'[t] = refresh[t]
      BY <1>0, <2>2 DEF NoRefresh
    <3>6. RefreshInv'
      BY <1>0, <2>2, <3>5 DEF RowInv, RefreshInv, InFlight, At
    <3>7. RowIds'
      BY <1>0, <1>1, <2>1, <2>2, <3>2, <3>3, <3>5 DEF RowInv, RowIds
    <3> QED
      BY <3>4, <3>6, <3>7 DEF RowInv
  <2> QED
    BY <2>3, <2>4
<1>9. ASSUME Crash(s) PROVE RowInv'
  <2>1. Over.id = 0
    BY DEF Over
  <2> QED
    BY <1>6, <1>9, <2>1 DEF Crash, google, history
<1> QED
  BY <1>4, <1>5, <1>7, <1>8, <1>9 DEF RefreshStep

\* Saving gives the row the credential together with its token.
LEMMA RowSaveStep ==
    ASSUME TokenTypeOK, RowInv, NEW credential \in held, Save(credential)
    PROVE  RowInv'
<1>0. /\ rows \in Nat /\ conn \in Connections \cup {NoConnection}
      /\ credential \in Tokens
      /\ UNCHANGED <<refresh, dead>>
  BY SaveEffect DEF TokenTypeOK, google
<1>1. CASE UNCHANGED <<conn, rows, overtaken, call>>
  BY <1>0, <1>1 DEF RowInv, RefreshInv, RowIds, RowMatchesCredential, InFlight, At
<1>2. CASE /\ Stored(credential)
           /\ \A c \in Calls : /\ call'[c].pc = call[c].pc /\ call'[c].id = call[c].id
                               /\ call'[c].grant = call[c].grant
  <2>1. /\ conn'.id = IF conn = NoConnection THEN rows + 1 ELSE conn.id
        /\ conn'.grant = credential.grant /\ conn'.token = credential
        /\ conn'.status = "ACTIVE"
    BY <1>2 DEF Stored, saveConnection
  <2>2. RowMatchesCredential'
    BY <2>1 DEF RowMatchesCredential
  <2>3. rows' = IF conn = NoConnection THEN rows + 1 ELSE rows
    BY <1>2 DEF Stored
  <2>4. \A s \in Servers : refresh[s].id \in Nat
    BY DEF TokenTypeOK, Refreshes
  <2>5. \A c \in Calls : call[c].id \in Nat
    BY DEF TokenTypeOK, CallRecords
  <2>6. RefreshInv'
    BY <1>0, <2>3, <2>4 DEF RowInv, RefreshInv, InFlight, At
  <2>7. RowIds'
    <3>1. CASE conn = NoConnection
      BY <1>0, <1>2, <2>1, <2>3, <2>4, <2>5, <3>1
      DEF RowInv, RefreshInv, RowIds
    <3>2. CASE conn # NoConnection
      <4>1. ~overtaken' => /\ \A s \in Servers : InFlight(s) => refresh[s].id # conn.id
                           /\ \A c \in Calls : call[c].id # conn.id
        BY <1>2, <3>2 DEF Stored, matchesId
      <4>2. conn.id # 0
        BY <3>2 DEF RowInv, RowIds
      <4>3. ~overtaken' => \A s \in Servers : refresh[s].id # conn.id
        BY <4>1, <4>2 DEF RowInv, RefreshInv
      <4> QED
        BY <1>0, <1>2, <2>1, <2>3, <3>2, <4>1, <4>3 DEF RowInv, RowIds
    <3> QED
      BY <3>1, <3>2
  <2> QED
    BY <2>2, <2>6, <2>7 DEF RowInv
<1> QED
  BY <1>1, <1>2, SaveEffect

\* Everything else leaves the row as it is, lets its token age, or deletes it.
LEMMA RowStep == TokenTypeOK /\ RowInv /\ [Next]_vars => RowInv'
<1> SUFFICES ASSUME TokenTypeOK, RowInv, [Next]_vars PROVE RowInv'
  OBVIOUS
<1>1. ASSUME UNCHANGED <<rows, refresh, call, overtaken>>, dead \subseteq dead',
             \/ conn' \in {conn, NoConnection}
             \/ /\ conn # NoConnection
                /\ conn'.id = conn.id /\ conn'.grant = conn.grant
                /\ conn'.token = conn.token /\ conn'.status = conn.status
      PROVE  RowInv'
  <2>1. RefreshInv'
    BY <1>1 DEF RowInv, RefreshInv, InFlight, At
  <2>2. RowIds' /\ RowMatchesCredential'
    BY <1>1 DEF RowInv, RowIds, RowMatchesCredential
  <2> QED
    BY <2>1, <2>2 DEF RowInv
<1>2. ASSUME World PROVE RowInv'
  <2>1. CASE TokenAges
    <3>1. /\ conn # NoConnection
          /\ conn'.id = conn.id /\ conn'.grant = conn.grant
          /\ conn'.token = conn.token /\ conn'.status = conn.status
      BY <2>1 DEF TokenAges, TokenTypeOK, Connections
    <3> QED
      BY <1>1, <2>1, <3>1 DEF TokenAges, google, history
  <2>2. CASE ~TokenAges
    BY <1>1, <1>2, <2>2 DEF World, UserRevokes, TokenLapses, history
  <2> QED
    BY <2>1, <2>2
<1>3. ASSUME NEW a \in Admins, DisconnectStep(a) PROVE RowInv'
  BY <1>1, <1>3
  DEF DisconnectStep, DisconnectRead, DisconnectRevoke, DisconnectDelete, google, history
<1>4. ASSUME NEW g \in Grants, Exchange(g) PROVE RowInv'
  BY <1>1, <1>4 DEF Exchange, history
<1>5. ASSUME NEW credential \in held, Lose(credential) PROVE RowInv'
  BY <1>1, <1>5 DEF Lose, google, history
<1>6. ASSUME UNCHANGED vars PROVE RowInv'
  BY <1>1, <1>6 DEF vars, google, history
<1> QED
  BY <1>2, <1>3, <1>4, <1>5, <1>6, RowCallStep, RowRefreshStep, RowSaveStep
  DEF Next, Service

\* The row never says REVOKED of a live credential and never pairs a credential
\* with another one's token, unless it was re-authorised under a refresh.
THEOREM RowIsTrue == Spec => []RowMatchesCredential
<1>1. Init => TokenTypeOK /\ RowInv
  BY TypeInit, RowInit
<1>2. TokenTypeOK /\ RowInv /\ [Next]_vars => (TokenTypeOK /\ RowInv)'
  BY TypeStep, RowStep
<1>3. RowInv => RowMatchesCredential
  BY DEF RowInv
<1> QED
  BY <1>1, <1>2, <1>3, PTL DEF Spec
---------------------------------------------------------------------------
(* The second round after a 401 *)

Holding(s) == refresh[s].stage \in {"store", "settle"}

\* Tokens that are somewhere else than in a refresh.
Outside ==
    held \cup {call[c].token : c \in Calls} \cup {call[c].refused : c \in Calls}
         \cup {t \in TokenOrNull : conn # NoConnection /\ t = conn.token}

\* The invariant: a token that a refresh has not stored yet is nowhere else, and
\* so it is not the one that anybody was refused with.
NewIsNew ==
    /\ \A t \in Outside : t # NoToken => t.n <= mints
    /\ \A s \in Servers : Holding(s) => refresh[s].token.n <= mints
    /\ \A s \in Servers : At(s, "store") =>
          /\ refresh[s].token \notin Outside
          /\ \A u \in Servers \ {s} : Holding(u) => refresh[u].token # refresh[s].token

FreshCalls ==
    \A c \in Calls : call[c].round = 2 /\ ~call[c].stored =>
        /\ call[c].pc = "issue" => call[c].token # call[c].refused
        /\ call[c].pc = "wait" /\ At(call[c].server, "settle") =>
              refresh[call[c].server].token # call[c].refused

FreshInv == NewIsNew /\ FreshCalls

\* At first there is one token, and nothing is running.
LEMMA FreshInit == Init => FreshInv
<1> SUFFICES ASSUME Init PROVE FreshInv
  OBVIOUS
<1>1. /\ mints = 1 /\ held = {}
      /\ conn.token = [grant |-> FirstGrant, n |-> 1]
  BY DEF Init
<1>2. \A s \in Servers : refresh[s].stage = "none"
  BY DEF Init, NoRefresh
<1>3. \A c \in Calls : /\ call[c].token = NoToken /\ call[c].refused = NoToken
                       /\ call[c].round = 1
  BY DEF Init, Over
<1>4. \A t \in Outside : t = NoToken \/ t = [grant |-> FirstGrant, n |-> 1]
  BY <1>1, <1>3 DEF Outside
<1>5. NewIsNew
  BY <1>1, <1>2, <1>4 DEF NewIsNew, Holding, At
<1>6. FreshCalls
  BY <1>3 DEF FreshCalls
<1> QED
  BY <1>5, <1>6 DEF FreshInv

\* A step that brings no token from outside the refreshes.
LEMMA NothingNew ==
    ASSUME TokenTypeOK, RefreshInv, NewIsNew, Outside' \subseteq Outside \cup {NoToken},
           UNCHANGED mints,
           \A s \in Servers : refresh'[s] = refresh[s] \/ ~Holding(s)'
    PROVE  NewIsNew'
<1>1. \A s \in Servers : Holding(s) => refresh[s].token # NoToken
  BY ConnectionAssumption DEF RefreshInv, Holding
<1> QED
  BY <1>1 DEF NewIsNew, Holding, At

\* What a token is outside for.
LEMMA OutsideForms ==
    ASSUME TokenTypeOK
    PROVE  /\ held \subseteq Outside
           /\ \A c \in Calls : call[c].token \in Outside /\ call[c].refused \in Outside
           /\ conn # NoConnection => conn.token \in Outside
<1>1. conn # NoConnection => conn.token \in TokenOrNull
  BY DEF TokenTypeOK, Connections
<1> QED
  BY <1>1 DEF Outside

\* What can be outside after a step.
LEMMA OutsideNext ==
    ASSUME NEW T, held' \subseteq T,
           \A c \in Calls : call'[c].token \in T /\ call'[c].refused \in T,
           conn' # NoConnection => conn'.token \in T
    PROVE  Outside' \subseteq T
  BY DEF Outside

\* The steps of a call.
LEMMA FreshCallStep ==
    ASSUME TokenTypeOK, RefreshInv, FreshInv, NEW c \in Calls,
           CallStep(c) \/ \E s \in Servers : CallStart(c, s)
    PROVE  FreshInv'
<1>0. /\ refresh \in [Servers -> Refreshes] /\ call \in [Calls -> CallRecords]
      /\ \A d \in Calls : call[d] \in CallRecords
      /\ call[c].server \in Servers
      /\ conn \in Connections \cup {NoConnection}
  BY DEF TokenTypeOK, CallRecords
<1>1. /\ held \subseteq Outside
      /\ \A d \in Calls : call[d].token \in Outside /\ call[d].refused \in Outside
      /\ conn # NoConnection => conn.token \in Outside
  BY OutsideForms
<1>2. ASSUME UNCHANGED <<conn, held, mints>>,
             \A d \in Calls \ {c} : call'[d] = call[d],
             call'[c].token \in Outside \cup {NoToken},
             call'[c].refused \in Outside \cup {NoToken},
             \A s \in Servers : refresh'[s] = refresh[s] \/ ~Holding(s)'
      PROVE  NewIsNew'
  <2>1. Outside' \subseteq Outside \cup {NoToken}
    BY <1>1, <1>2, OutsideNext
  <2> QED
    BY <1>2, <2>1, NothingNew DEF FreshInv
<1>3. /\ /\ Over.token = NoToken /\ Over.refused = NoToken /\ Over.round = 1
      /\ /\ SecondRound(c).token = NoToken /\ SecondRound(c).refused = call[c].token
         /\ SecondRound(c).pc = "ask"
      /\ /\ NextAttempt(c).pc = call[c].pc /\ NextAttempt(c).round = call[c].round
         /\ NextAttempt(c).server = call[c].server
         /\ NextAttempt(c).token = call[c].token
         /\ NextAttempt(c).refused = call[c].refused
         /\ NextAttempt(c).stored = call[c].stored
      /\ /\ ToJoin(c).token = call[c].token /\ ToJoin(c).refused = call[c].refused
         /\ ToJoin(c).pc = "join"
  BY <1>0, CallForms
<1>4. ASSUME NEW s \in Servers, CallStart(c, s) PROVE FreshInv'
  <2>1. /\ call'[c].token = NoToken /\ call'[c].refused = NoToken /\ call'[c].round = 1
        /\ \A d \in Calls \ {c} : call'[d] = call[d]
        /\ UNCHANGED <<conn, held, mints, refresh>>
    BY <1>0, <1>4 DEF CallStart, Over, google
  <2> QED
    BY <1>2, <2>1 DEF FreshInv, FreshCalls, At
<1>5. ASSUME Ask(c) PROVE FreshInv'
  <2>1. /\ \A d \in Calls \ {c} : call'[d] = call[d]
        /\ UNCHANGED <<conn, held, mints, refresh>>
    BY <1>5, AskEffect DEF google
  <2>2. CASE call'[c] = Over
    BY <1>2, <1>3, <2>1, <2>2 DEF FreshInv, FreshCalls, At
  <2>3. CASE call'[c] = ToJoin(c)
    BY <1>1, <1>2, <1>3, <2>1, <2>3 DEF FreshInv, FreshCalls, At
  <2>4. CASE /\ isActive(conn) /\ call[c].round = 1
             /\ call'[c] = [call[c] EXCEPT !.pc = "issue", !.token = conn.token]
    <3>1. /\ call'[c].token = conn.token /\ call'[c].refused = call[c].refused
          /\ call'[c].round = 1
      BY <1>0, <2>4 DEF CallRecords
    <3>2. NewIsNew'
      BY <1>1, <1>2, <2>1, <2>4, <3>1 DEF isActive
    <3>3. FreshCalls'
      BY <2>1, <3>1 DEF FreshInv, FreshCalls, At
    <3> QED
      BY <3>2, <3>3 DEF FreshInv
  <2> QED
    BY <1>5, <2>2, <2>3, <2>4, AskEffect
<1>6. ASSUME Issue(c) PROVE FreshInv'
  <2>1. /\ \A d \in Calls \ {c} : call'[d] = call[d]
        /\ UNCHANGED <<conn, held, mints, refresh>>
    BY <1>6, IssueEffect DEF google
  <2>2. CASE call'[c] = Over
    BY <1>2, <1>3, <2>1, <2>2 DEF FreshInv, FreshCalls, At
  <2>3. CASE call'[c] = SecondRound(c)
    BY <1>1, <1>2, <1>3, <2>1, <2>3 DEF FreshInv, FreshCalls, At
  <2>4. CASE call'[c] = NextAttempt(c)
    BY <1>1, <1>2, <1>3, <2>1, <2>4 DEF FreshInv, FreshCalls, At
  <2> QED
    BY <1>6, <2>2, <2>3, <2>4, IssueEffect
<1>7. ASSUME Join(c) PROVE FreshInv'
  <2> DEFINE s == call[c].server
  <2>1. /\ \A d \in Calls \ {c} : call'[d] = call[d]
        /\ call'[c].token = call[c].token /\ call'[c].refused = call[c].refused
        /\ call'[c].server = s
        /\ call'[c].stored <=> At(s, "settle")
        /\ UNCHANGED <<conn, held, mints>>
    BY <1>0, <1>7 DEF Join, CallRecords, google, At
  <2>2. /\ \A u \in Servers \ {s} : refresh'[u] = refresh[u]
        /\ refresh'[s] = refresh[s] \/ (At(s, "none") /\ refresh'[s].stage = "post")
    BY <1>0, <1>7 DEF Join, NoRefresh, InFlight, At
  <2>3. \A u \in Servers : refresh'[u] = refresh[u] \/ ~Holding(u)'
    BY <2>2 DEF Holding
  <2>4. NewIsNew'
    BY <1>1, <1>2, <2>1, <2>3
  <2>5. FreshCalls'
    <3>1. \A d \in Calls \ {c} : call[d].server \in Servers
      BY <1>0 DEF CallRecords
    <3>2. call'[c].pc = "wait"
      BY <1>0, <1>7 DEF Join
    <3> QED
      BY <1>0, <2>1, <2>2, <3>1, <3>2 DEF FreshInv, FreshCalls, At
  <2> QED
    BY <2>4, <2>5 DEF FreshInv
<1> QED
  BY <1>4, <1>5, <1>6, <1>7 DEF CallStep
\* The steps of a refresh: a token is new when it is minted, and its waiters
\* hear of it only after it is stored.
LEMMA FreshRefreshStep ==
    ASSUME TokenTypeOK, RefreshInv, FreshInv, NEW s \in Servers,
           RefreshStep(s) \/ Crash(s)
    PROVE  FreshInv'
<1>0. /\ refresh \in [Servers -> Refreshes] /\ call \in [Calls -> CallRecords]
      /\ refresh[s] \in Refreshes /\ refresh[s].id \in Nat /\ refresh[s].grant \in Grants
      /\ \A c \in Calls : call[c] \in CallRecords /\ call[c].server \in Servers
      /\ mints \in Nat
      /\ conn \in Connections \cup {NoConnection}
  BY DEF TokenTypeOK, Refreshes, CallRecords
<1>1. /\ held \subseteq Outside
      /\ \A d \in Calls : call[d].token \in Outside /\ call[d].refused \in Outside
      /\ conn # NoConnection => conn.token \in Outside
  BY OutsideForms
<1>2. \A c \in Calls :
         /\ Over.token = NoToken /\ Over.refused = NoToken /\ Over.round = 1
         /\ SecondRound(c).token = NoToken /\ SecondRound(c).refused = call[c].token
         /\ SecondRound(c).pc = "ask"
  BY <1>0, CallForms
<1>3. ASSUME RefreshPost(s) PROVE FreshInv'
  <2> DEFINE new == NewToken(refresh[s].grant)
  <2>1. /\ UNCHANGED <<conn, held, call>>
        /\ \A u \in Servers \ {s} : refresh'[u] = refresh[u]
        /\ \/ /\ refresh'[s].stage = "store" /\ refresh'[s].token = new
              /\ mints' = mints + 1
           \/ ~(refresh'[s].stage \in {"store", "settle"}) /\ mints' = mints
    BY <1>0, <1>3 DEF RefreshPost, Refreshes, Mint, At
  <2>2. Outside' = Outside
    BY <2>1 DEF Outside
  <2>3. NewIsNew'
    <3>1. CASE mints' = mints
      <4>1. ~Holding(s)'
        BY <1>0, <2>1, <3>1 DEF Holding
      <4> QED
        BY <2>1, <2>2, <3>1, <4>1, NothingNew DEF FreshInv
    <3>2. CASE /\ refresh'[s].stage = "store" /\ refresh'[s].token = new
               /\ mints' = mints + 1
      <4>1. new \in Tokens /\ new.n = mints + 1
        BY <1>0, FreshType DEF NewToken
      <4>2. new # NoToken
        BY <4>1, ConnectionAssumption
      <4>3. \A t \in Outside : t # NoToken => t.n \in Nat
        <5>1. \A t \in Outside : t \in TokenOrNull
          BY <1>0 DEF Outside, TokenTypeOK, CallRecords, TokenOrNull
        <5> QED
          BY <5>1 DEF TokenOrNull, Tokens
      <4>4. \A u \in Servers : Holding(u) => refresh[u].token.n \in Nat
        BY DEF RefreshInv, Holding, Tokens
      <4>5. new \notin Outside
        BY <1>0, <4>1, <4>2 DEF FreshInv, NewIsNew
      <4>6. \A u \in Servers \ {s} : Holding(u) => refresh[u].token # new
        BY <1>0, <4>1 DEF FreshInv, NewIsNew
      <4> QED
        BY <1>0, <2>1, <2>2, <3>2, <4>1, <4>3, <4>4, <4>5, <4>6
        DEF FreshInv, NewIsNew, Holding, At
    <3> QED
      BY <2>1, <3>1, <3>2
  <2>4. FreshCalls'
    <3>1. refresh'[s].stage # "settle"
      BY <2>1
    <3> QED
      BY <1>0, <2>1, <3>1 DEF FreshInv, FreshCalls, At
  <2> QED
    BY <2>3, <2>4 DEF FreshInv
<1>4. ASSUME RefreshStore(s) PROVE FreshInv'
  <2> DEFINE token == refresh[s].token
  <2>1. /\ UNCHANGED <<held, call, mints>>
        /\ \A u \in Servers \ {s} : refresh'[u] = refresh[u]
        /\ refresh[s].stage = "store"
        /\ refresh'[s].stage \in {"settle", "error"} /\ refresh'[s].token = token
        /\ conn' = conn \/ conn' = updateAccessToken(conn, refresh[s].id, token)
    BY <1>0, <1>4 DEF RefreshStore, google, At, Refreshes
  <2>2. conn' # NoConnection => conn'.token \in Outside \cup {token}
    <3>1. CASE conn' = conn
      BY <1>1, <3>1
    <3>2. CASE conn' # conn
      <4>1. /\ conn # NoConnection
            /\ conn' = [conn EXCEPT !.token = token, !.usable = TRUE, !.status = "ACTIVE"]
        BY <2>1, <3>2 DEF updateAccessToken, matchesId
      <4> QED
        BY <1>0, <4>1 DEF Connections
    <3> QED
      BY <3>1, <3>2
  <2>3. Outside' \subseteq Outside \cup {token}
    BY <1>1, <2>1, <2>2, OutsideNext
  <2>4. /\ token \notin Outside /\ token.n <= mints
        /\ \A u \in Servers \ {s} : Holding(u) => refresh[u].token # token
    BY <2>1 DEF FreshInv, NewIsNew, At, Holding
  <2>5. NewIsNew'
    BY <2>1, <2>3, <2>4 DEF FreshInv, NewIsNew, At, Holding
  <2>6. FreshCalls'
    BY <1>0, <1>1, <2>1, <2>4 DEF FreshInv, FreshCalls, At
  <2> QED
    BY <2>5, <2>6 DEF FreshInv
<1>5. ASSUME RefreshSettle(s) PROVE FreshInv'
  <2> DEFINE token == refresh[s].token
  <2>1. /\ UNCHANGED <<conn, held, mints>>
        /\ \A u \in Servers \ {s} : refresh'[u] = refresh[u]
        /\ refresh[s].stage = "settle" /\ refresh'[s].stage = "none"
    BY <1>0, <1>5 DEF RefreshSettle, google, At, NoRefresh
  <2>2. ASSUME NEW c \in Calls
        PROVE  \/ call'[c] = call[c] /\ (call[c].pc = "wait" => call[c].server # s)
               \/ /\ call[c].pc = "wait" /\ call[c].server = s
                  /\ call'[c].pc = "issue" /\ call'[c].token = token
                  /\ call'[c].refused = call[c].refused
                  /\ call'[c].round = call[c].round /\ call'[c].stored = call[c].stored
    <3>1. CASE c \in Waiting(s)
      <4>1. call'[c] = [call[c] EXCEPT !.pc = "issue", !.token = token]
        BY <1>5, <3>1 DEF RefreshSettle
      <4> QED
        BY <1>0, <3>1, <4>1 DEF Waiting, CallRecords
    <3>2. CASE c \notin Waiting(s)
      BY <1>5, <3>2 DEF RefreshSettle, Waiting
    <3> QED
      BY <3>1, <3>2
  <2>3. Outside' \subseteq Outside \cup {token}
    <3>1. \A c \in Calls : /\ call'[c].token \in Outside \cup {token}
                           /\ call'[c].refused \in Outside \cup {token}
      BY <1>1, <2>2
    <3> QED
      BY <1>1, <2>1, <3>1, OutsideNext
  <2>4. NewIsNew'
    BY <2>1, <2>3 DEF FreshInv, NewIsNew, At, Holding
  <2>5. FreshCalls'
    BY <1>0, <2>1, <2>2 DEF FreshInv, FreshCalls, At
  <2> QED
    BY <2>4, <2>5 DEF FreshInv
<1>6. ASSUME refresh' = [refresh EXCEPT ![s] = NoRefresh], UNCHANGED <<held, mints>>,
             conn' # NoConnection => conn # NoConnection /\ conn'.token \in {conn.token, NoToken},
             \A c \in Calls : \/ call'[c] = call[c]
                              \/ call'[c] = Over
                              \/ call'[c] = SecondRound(c)
      PROVE  FreshInv'
  <2>1. /\ refresh'[s].stage = "none"
        /\ \A u \in Servers \ {s} : refresh'[u] = refresh[u]
    BY <1>0, <1>6 DEF NoRefresh
  <2>2. Outside' \subseteq Outside \cup {NoToken}
    <3>1. \A c \in Calls : /\ call'[c].token \in Outside \cup {NoToken}
                           /\ call'[c].refused \in Outside \cup {NoToken}
      BY <1>1, <1>2, <1>6
    <3> QED
      BY <1>1, <1>6, <3>1, OutsideNext
  <2>3. NewIsNew'
    BY <1>6, <2>1, <2>2, NothingNew DEF FreshInv, Holding
  <2>4. FreshCalls'
    BY <1>0, <1>2, <1>6, <2>1 DEF FreshInv, FreshCalls, At
  <2> QED
    BY <2>3, <2>4 DEF FreshInv
<1>7. ASSUME RefreshFailed(s) PROVE FreshInv'
  <2>1. conn' # NoConnection => conn # NoConnection /\ conn'.token \in {conn.token, NoToken}
    <3>1. PICK status : \/ conn' = conn
                        \/ conn' = markConnectionFailed(conn, refresh[s].id, status)
      BY <1>7 DEF RefreshFailed
    <3>2. CASE conn' = conn
      BY <3>2
    <3>3. CASE conn' # conn
      <4>1. /\ conn # NoConnection
            /\ conn' = [conn EXCEPT !.token = NoToken, !.usable = FALSE, !.status = status]
        BY <3>1, <3>3 DEF markConnectionFailed, matchesId
      <4> QED
        BY <1>0, <4>1 DEF Connections
    <3> QED
      BY <3>2, <3>3
  <2>2. /\ refresh' = [refresh EXCEPT ![s] = NoRefresh] /\ UNCHANGED <<held, mints>>
        /\ \A c \in Calls : \/ call'[c] = call[c]
                            \/ call'[c] = Over
                            \/ call'[c] = SecondRound(c)
    BY <1>7, RejectEffect DEF google
  <2> QED
    BY <1>6, <2>1, <2>2
<1>8. ASSUME Crash(s) PROVE FreshInv'
  BY <1>6, <1>8 DEF Crash, google
<1> QED
  BY <1>3, <1>4, <1>5, <1>7, <1>8 DEF RefreshStep

\* What the callback, the disconnect and the world do to tokens.
LEMMA FreshOtherStep ==
    ASSUME TokenTypeOK, RefreshInv, FreshInv,
           \/ World
           \/ \E a \in Admins : DisconnectStep(a)
           \/ \E g \in Grants : Exchange(g)
           \/ \E credential \in held : Save(credential) \/ Lose(credential)
           \/ UNCHANGED vars
    PROVE  FreshInv'
<1>0. /\ mints \in Nat /\ conn \in Connections \cup {NoConnection}
      /\ \A c \in Calls : call[c] \in CallRecords
  BY DEF TokenTypeOK
<1>1. /\ held \subseteq Outside
      /\ \A d \in Calls : call[d].token \in Outside /\ call[d].refused \in Outside
      /\ conn # NoConnection => conn.token \in Outside
  BY OutsideForms
<1>2. ASSUME UNCHANGED <<refresh, mints>>, held' \subseteq held,
             \A c \in Calls : /\ call'[c].pc = call[c].pc /\ call'[c].round = call[c].round
                              /\ call'[c].server = call[c].server
                              /\ call'[c].token = call[c].token
                              /\ call'[c].refused = call[c].refused
                              /\ call'[c].stored = call[c].stored,
             conn' # NoConnection => \/ conn'.token \in held
                                     \/ conn # NoConnection /\ conn'.token = conn.token
      PROVE  FreshInv'
  <2>1. Outside' \subseteq Outside
    BY <1>1, <1>2, OutsideNext
  <2>2. NewIsNew'
    BY <1>2, <2>1, NothingNew DEF FreshInv
  <2>3. FreshCalls'
    BY <1>2 DEF FreshInv, FreshCalls, At
  <2> QED
    BY <2>2, <2>3 DEF FreshInv
<1>3. ASSUME World PROVE FreshInv'
  <2>1. conn' # NoConnection => conn # NoConnection /\ conn'.token = conn.token
    BY <1>0, <1>3, ConnectionAssumption
    DEF World, UserRevokes, TokenAges, TokenLapses, Connections
  <2> QED
    BY <1>2, <1>3, <2>1 DEF World, UserRevokes, TokenAges, TokenLapses, google
<1>4. ASSUME NEW a \in Admins, DisconnectStep(a) PROVE FreshInv'
  BY <1>2, <1>4
  DEF DisconnectStep, DisconnectRead, DisconnectRevoke, DisconnectDelete, google
<1>5. ASSUME NEW credential \in held, Save(credential) PROVE FreshInv'
  <2>1. /\ held' \subseteq held /\ UNCHANGED <<refresh, mints>>
        /\ UNCHANGED <<conn, call>> \/ Stored(credential)
    BY <1>5, SaveEffect DEF google
  <2>2. Stored(credential) => conn'.token = credential
    BY DEF Stored, saveConnection
  <2> QED
    BY <1>2, <1>5, <2>1, <2>2, SaveEffect
<1>6. ASSUME NEW credential \in held, Lose(credential) PROVE FreshInv'
  BY <1>2, <1>6 DEF Lose, google
<1>7. ASSUME NEW g \in Grants, Exchange(g), mints' # mints PROVE FreshInv'
  <2>1. /\ UNCHANGED <<conn, refresh, call>> /\ mints' = mints + 1
        /\ held' \subseteq held \cup {NewToken(g)}
    BY <1>7 DEF Exchange, Mint
  <2>2. NewToken(g) \in Tokens /\ NewToken(g).n = mints + 1
    BY <1>0, FreshType DEF NewToken
  <2>3. Outside' \subseteq Outside \cup {NewToken(g)}
    BY <1>1, <2>1, OutsideNext
  <2>4. \A t \in Outside : t # NoToken => t.n \in Nat
    <3>1. \A t \in Outside : t \in TokenOrNull
      BY <1>0 DEF Outside, TokenTypeOK, CallRecords, TokenOrNull
    <3> QED
      BY <3>1 DEF TokenOrNull, Tokens
  <2>5. \A u \in Servers : Holding(u) =>
           refresh[u].token.n \in Nat /\ refresh[u].token # NewToken(g)
    <3>1. \A u \in Servers : Holding(u) => refresh[u].token.n \in Nat
      BY DEF RefreshInv, Holding, Tokens
    <3> QED
      BY <1>0, <2>2, <3>1 DEF FreshInv, NewIsNew
  <2>6. NewIsNew'
    BY <1>0, <2>1, <2>2, <2>3, <2>4, <2>5 DEF FreshInv, NewIsNew, Holding, At
  <2>7. FreshCalls'
    BY <2>1 DEF FreshInv, FreshCalls, At
  <2> QED
    BY <2>6, <2>7 DEF FreshInv
<1>8. ASSUME NEW g \in Grants, Exchange(g), mints' = mints PROVE FreshInv'
  <2>1. UNCHANGED <<conn, held, mints, refresh, call>>
    BY <1>0, <1>8 DEF Exchange, Mint, TokenTypeOK
  <2> QED
    BY <1>2, <2>1
<1>9. ASSUME UNCHANGED vars PROVE FreshInv'
  BY <1>2, <1>9 DEF vars, google
<1> QED
  BY <1>3, <1>4, <1>5, <1>6, <1>7, <1>8, <1>9

\* A token that was refused is not presented a second time, whichever refresh,
\* on whichever row, the second round has waited for.
THEOREM SecondRoundIsFresh == Spec => []FreshAfter401
<1>1. Init => TokenTypeOK /\ RowInv /\ FreshInv
  BY TypeInit, RowInit, FreshInit
<1>2. TokenTypeOK /\ RowInv /\ FreshInv /\ [Next]_vars => FreshInv'
  BY FreshCallStep, FreshRefreshStep, FreshOtherStep DEF RowInv, Next, Service
<1>3. TokenTypeOK /\ RowInv /\ FreshInv /\ [Next]_vars
         => (TokenTypeOK /\ RowInv /\ FreshInv)'
  BY <1>2, TypeStep, RowStep
<1>4. FreshInv => FreshAfter401
  BY DEF FreshInv, FreshCalls, FreshAfter401
<1> QED
  BY <1>1, <1>3, <1>4, PTL DEF Spec
=============================================================================
