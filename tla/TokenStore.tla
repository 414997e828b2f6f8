----------------------------- MODULE TokenStore -----------------------------
(***************************************************************************)
(* The stored Google connection and everything that uses it: the access    *)
(* tokens of auth/token-store.ts, the requests of google/client.ts with    *)
(* their retries and the one round after a 401, the row of google_connec-  *)
(* tions (connection.repository.ts), disconnecting                         *)
(* (app/api/auth/google/disconnect/route.ts), and Google's token endpoint. *)
(*                                                                         *)
(* A server is one Node process, which holds at most one refresh in flight.*)
(* A call is one googleRequest.  How a callback comes to hold a fresh      *)
(* credential is left to ConsentFlow.                                      *)
(***************************************************************************)
EXTENDS Naturals

CONSTANTS
    Servers,           \* processes, each with its own inFlightRefresh
    Calls,             \* googleRequests that may be running at once
    Admins,            \* disconnect requests that may be running at once
    Grants,            \* refresh tokens Google may hand out
    FirstGrant,        \* the one that is stored to begin with
    NoConnection,      \* no row
    NoToken,           \* SQL null in access_token_encrypted
    MaxAttempts,       \* GOOGLE_API_MAX_ATTEMPTS
    MAX_TOKEN_ATTEMPTS,\* the attempts of a token request
    MaxFaults          \* bound on failures, expiries and crashes

\* A token is known by the grant it was minted from and by its number.
Tokens == [grant : Grants, n : Nat]
TokenOrNull == Tokens \cup {NoToken}

CONNECTION_STATUSES == {"ACTIVE", "REVOKED", "ERROR"}

(***************************************************************************)
(* A row of google_connections.  usable says that the access token's       *)
(* expiry, less the skew of a minute, is still ahead.                      *)
(***************************************************************************)
Connections ==
    [id : Nat, grant : Grants, token : TokenOrNull, usable : BOOLEAN,
     status : CONNECTION_STATUSES]

ASSUME ConnectionAssumption ==
    /\ Servers # {}
    /\ FirstGrant \in Grants
    /\ NoConnection \notin Connections
    /\ NoToken \notin Tokens
    /\ MaxAttempts \in Nat \ {0}
    /\ MAX_TOKEN_ATTEMPTS \in Nat \ {0}
    /\ MaxFaults \in Nat

VARIABLES
    conn,       \* the row with slug `default', or NoConnection
    rows,       \* rows inserted so far; gives each a new id
    mints,      \* access tokens minted so far
    lapsed,     \* access tokens that Google stopped taking before their time
    issued,     \* grants that Google has handed out
    dead,       \* grants that Google no longer honours
    held,       \* credentials that a callback holds and has not stored yet
    refresh,    \* each server's inFlightRefresh
    call,       \* each googleRequest
    removal,    \* each disconnect request
    faults,     \* faults so far
    (* History, read by properties only *)
    removed,    \* grants whose disconnect request has deleted its row
    overtaken   \* the row was re-authorised under a refresh of that row

google == <<mints, lapsed, issued, dead>>
history == <<removed, overtaken>>
vars == <<conn, rows, google, held, refresh, call, removal, faults, history>>

RefreshStages == {"none", "post", "store", "settle", "revoked", "error", "denied"}

Refreshes == [stage : RefreshStages, id : Nat, grant : Grants,
              attempt : 1..MAX_TOKEN_ATTEMPTS, token : TokenOrNull]

NoRefresh == [stage |-> "none", id |-> 0, grant |-> FirstGrant, attempt |-> 1,
              token |-> NoToken]

(***************************************************************************)
(* A call asks for the connection, may go on to join a refresh and wait    *)
(* for it, and issues its request with the token.  id and grant are of the *)
(* row it has read.  The rest is history: refused is the token that the    *)
(* first round's 401 was about, stored says that the refresh it joined had *)
(* stored its token by then, and cutOff that the call began without a row  *)
(* and none has been saved since.                                          *)
(***************************************************************************)
CallRecords ==
    [pc : {"idle", "ask", "join", "wait", "issue"}, server : Servers,
     round : {1, 2}, attempt : 1..MaxAttempts, token : TokenOrNull, id : Nat,
     grant : Grants, refused : TokenOrNull, stored : BOOLEAN, cutOff : BOOLEAN]

Removals == [pc : {"idle", "revoke", "delete"}, grant : Grants]

NoRemoval == [pc |-> "idle", grant |-> FirstGrant]

Fault == faults < MaxFaults /\ faults' = faults + 1

At(s, stage) == refresh[s].stage = stage

InFlight(s) == ~At(s, "none")

\* A call that is over, or not begun; its server is of no account.
Over == [pc |-> "idle", server |-> CHOOSE s \in Servers : TRUE, round |-> 1,
         attempt |-> 1, token |-> NoToken, id |-> 0, grant |-> FirstGrant,
         refused |-> NoToken, stored |-> FALSE, cutOff |-> FALSE]

Init ==
    /\ \E usable \in BOOLEAN :
          conn = [id |-> 1, grant |-> FirstGrant,
                  token |-> [grant |-> FirstGrant, n |-> 1], usable |-> usable,
                  status |-> "ACTIVE"]
    /\ lapsed = {}
    /\ rows = 1
    /\ mints = 1
    /\ issued = {FirstGrant}
    /\ dead = {}
    /\ held = {}
    /\ refresh = [s \in Servers |-> NoRefresh]
    /\ call = [c \in Calls |-> Over]
    /\ removal = [a \in Admins |-> NoRemoval]
    /\ faults = 0
    /\ removed = {}
    /\ overtaken = FALSE

---------------------------------------------------------------------------
(* Statements on the row.  They change the connection they are given. *)

\* WHERE id = ...; a statement that matches no row is not an error.
matchesId(c, id) == c # NoConnection /\ c.id = id

\* Mutant: an upsert, which brings a deleted row back.
upsertAccessToken(c, id, token) ==
    IF matchesId(c, id) \/ c = NoConnection
    THEN [id |-> id, grant |-> token.grant, token |-> token, usable |-> TRUE,
          status |-> "ACTIVE"]
    ELSE c

updateAccessToken(c, id, token) ==
    IF matchesId(c, id)
    THEN [c EXCEPT !.token = token, !.usable = TRUE, !.status = "ACTIVE"]
    ELSE c

\* Mutant: every failed refresh counts as a dead credential.
markAnyFailureRevoked(c, id, status) ==
    IF matchesId(c, id)
    THEN [c EXCEPT !.token = NoToken, !.usable = FALSE, !.status = "REVOKED"]
    ELSE c

markConnectionFailed(c, id, status) ==
    IF matchesId(c, id)
    THEN [c EXCEPT !.token = NoToken, !.usable = FALSE, !.status = status]
    ELSE c

\* An upsert on slug: the row keeps its id if there is one.
saveConnection(c, credential) ==
    [id |-> IF c = NoConnection THEN rows + 1 ELSE c.id,
     grant |-> credential.grant, token |-> credential, usable |-> TRUE,
     status |-> "ACTIVE"]

---------------------------------------------------------------------------
(* Google *)

NewToken(g) == [grant |-> g, n |-> mints + 1]

Accepts(t) == t.grant \notin dead /\ t \notin lapsed

Mint == mints' = mints + 1

\* The user withdraws the app's access in their Google account.
UserRevokes(g) ==
    /\ g \in issued \ dead
    /\ Fault
    /\ dead' = dead \cup {g}
    /\ UNCHANGED <<conn, rows, mints, lapsed, issued, held, refresh, call, removal,
                   history>>

\* Google stops taking an access token before its stated expiry.
TokenLapses(t) ==
    /\ Accepts(t)
    /\ Fault
    /\ lapsed' = lapsed \cup {t}
    /\ UNCHANGED <<conn, rows, mints, issued, dead, held, refresh, call, removal,
                   history>>

\* The clock comes within EXPIRY_SKEW_MS of the stored expiry.
TokenAges ==
    /\ conn # NoConnection
    /\ conn.usable
    /\ Fault
    /\ conn' = [conn EXCEPT !.usable = FALSE]
    /\ UNCHANGED <<rows, google, held, refresh, call, removal, history>>

---------------------------------------------------------------------------
(* googleRequest *)

CallStart(c, s) ==
    /\ call[c].pc = "idle"
    /\ call' = [call EXCEPT ![c] = [Over EXCEPT !.pc = "ask", !.server = s,
                                                   !.cutOff = conn = NoConnection]]
    /\ UNCHANGED <<conn, rows, google, held, refresh, removal, faults, history>>

\* requireConnection lets the caller go on.
isActive(c) == c # NoConnection /\ c.status = "ACTIVE"

isUsable(c) == c.token # NoToken /\ c.usable

\* The caller goes on to join or start a refresh with the row it has read.
ToJoin(c) ==
    [call[c] EXCEPT !.pc = "join", !.id = conn.id, !.grant = conn.grant]

\* Mutant: the cached token is good enough after a 401, too.
AskCached(c) ==
    /\ call[c].pc = "ask"
    /\ call' = [call EXCEPT
                  ![c] = IF ~isActive(conn) THEN Over
                         ELSE IF isUsable(conn)
                         THEN [@ EXCEPT !.pc = "issue", !.token = conn.token]
                         ELSE ToJoin(c)]
    /\ UNCHANGED <<conn, rows, google, held, refresh, removal, faults, history>>

\* Mutant: a refresh in flight is joined before the connection is looked up.
AskInFlight(c) ==
    /\ call[c].pc = "ask"
    /\ call' = [call EXCEPT
                  ![c] = IF InFlight(@.server) THEN [@ EXCEPT !.pc = "wait"]
                         ELSE IF ~isActive(conn) THEN Over
                         ELSE IF @.round = 1 /\ isUsable(conn)
                         THEN [@ EXCEPT !.pc = "issue", !.token = conn.token]
                         ELSE ToJoin(c)]
    /\ UNCHANGED <<conn, rows, google, held, refresh, removal, faults, history>>

(***************************************************************************)
(* getAccessToken in the first round, forceRefresh in the second:          *)
(* requireConnection, the stored token if it will do, or a refresh.        *)
(***************************************************************************)
Ask(c) ==
    /\ call[c].pc = "ask"
    /\ \/ /\ ~isActive(conn)
          /\ call' = [call EXCEPT ![c] = Over]
          /\ UNCHANGED faults
       \/ /\ isActive(conn)
          /\ call[c].round = 1 /\ isUsable(conn)
          /\ call' = [call EXCEPT ![c].pc = "issue", ![c].token = conn.token]
          /\ UNCHANGED faults
       \/ /\ isActive(conn)
          /\ call[c].round = 2 \/ ~isUsable(conn)
          /\ call' = [call EXCEPT ![c] = ToJoin(c)]
          /\ UNCHANGED faults
       \/ /\ Fault
          /\ call' = [call EXCEPT ![c] = Over]
    /\ UNCHANGED <<conn, rows, google, held, refresh, removal, history>>

\* inFlightRefresh ??= doRefresh(connection), with the row as it was read.
Join(c) ==
    LET s == call[c].server IN
    /\ call[c].pc = "join"
    /\ call' = [call EXCEPT ![c].pc = "wait", ![c].id = 0, ![c].grant = FirstGrant,
                            ![c].stored = At(s, "settle")]
    /\ refresh' = IF InFlight(s) THEN refresh
                  ELSE [refresh EXCEPT ![s] =
                          [NoRefresh EXCEPT !.stage = "post", !.id = call[c].id,
                                            !.grant = call[c].grant]]
    /\ UNCHANGED <<conn, rows, google, held, removal, faults, history>>

\* After a 401: once more, with another token.
SecondRound(c) ==
    [call[c] EXCEPT !.pc = "ask", !.round = 2, !.attempt = 1, !.token = NoToken,
                    !.refused = call[c].token, !.stored = FALSE]

NextAttempt(c) == [call[c] EXCEPT !.attempt = @ + 1]

\* Mutant: a 401 is tried again like an outage, and not counted.
IssueUncounted(c) ==
    /\ call[c].pc = "issue"
    /\ call' = [call EXCEPT ![c] = IF Accepts(@.token) THEN Over
                                   ELSE NextAttempt(c)]
    /\ UNCHANGED <<conn, rows, google, held, refresh, removal, faults, history>>

(***************************************************************************)
(* One attempt of withRetry(performRequest).  A 401 is not retried.  The   *)
(* fault is a timeout, a failed fetch or a 408, 429 or 5xx, after which    *)
(* another attempt follows while there is one left; any other answer ends  *)
(* the call, as success does.                                              *)
(***************************************************************************)
Issue(c) ==
    /\ call[c].pc = "issue"
    /\ \/ /\ Accepts(call[c].token)
          /\ call' = [call EXCEPT ![c] = Over]
          /\ UNCHANGED faults
       \/ /\ ~Accepts(call[c].token)
          /\ call' = [call EXCEPT ![c] = IF call[c].round = 1 THEN SecondRound(c)
                                                              ELSE Over]
          /\ UNCHANGED faults
       \/ /\ Fault
          /\ call' = [call EXCEPT
                        ![c] = IF call[c].attempt < MaxAttempts
                               THEN NextAttempt(c) ELSE Over]
    /\ UNCHANGED <<conn, rows, google, held, refresh, removal, history>>

---------------------------------------------------------------------------
(* doRefresh *)

Waiting(s) == {c \in Calls : call[c].pc = "wait" /\ call[c].server = s}

(***************************************************************************)
(* The promise is rejected: it is cleared, and its waiters fail.  An error *)
(* that is a 401 sends those in their first round to forceRefresh, like a  *)
(* 401 to the request itself.                                              *)
(***************************************************************************)
Reject(s, unauthorized) ==
    /\ refresh' = [refresh EXCEPT ![s] = NoRefresh]
    /\ call' = [c \in Calls |->
                  IF c \notin Waiting(s) THEN call[c]
                  ELSE IF unauthorized /\ call[c].round = 1 THEN SecondRound(c)
                  ELSE Over]

\* refreshAccessToken: one attempt of withRetry(postToken).
RefreshPost(s) ==
    /\ At(s, "post")
    /\ \/ /\ refresh[s].grant \notin dead
          /\ Mint
          /\ refresh' = [refresh EXCEPT ![s].stage = "store",
                                        ![s].token = NewToken(refresh[s].grant)]
          /\ UNCHANGED faults
       \/ /\ refresh[s].grant \in dead
          /\ refresh' = [refresh EXCEPT ![s].stage = "revoked"]
          /\ UNCHANGED <<mints, faults>>
       \/ /\ Fault
          /\ refresh[s].attempt < MAX_TOKEN_ATTEMPTS
          /\ refresh' = [refresh EXCEPT ![s].attempt = @ + 1]
          /\ UNCHANGED mints
       \/ /\ Fault
          /\ \E stage \in {"error", "denied"} :
                refresh' = [refresh EXCEPT ![s].stage = stage]
          /\ UNCHANGED mints
    /\ UNCHANGED <<conn, rows, lapsed, issued, dead, held, call, removal, history>>

RefreshStore(s) ==
    LET stored == updateAccessToken(conn, refresh[s].id, refresh[s].token) IN
    /\ At(s, "store")
    /\ \/ /\ conn' = stored
          /\ refresh' = [refresh EXCEPT ![s].stage = "settle"]
          /\ UNCHANGED faults
       \/ /\ Fault
          /\ conn' \in {conn, stored}
          /\ refresh' = [refresh EXCEPT ![s].stage = "error"]
    /\ UNCHANGED <<rows, google, held, call, removal, history>>

\* The answer to the statement arrives: the promise settles, it is cleared,
\* and its waiters go on with the token.
RefreshSettle(s) ==
    /\ At(s, "settle")
    /\ refresh' = [refresh EXCEPT ![s] = NoRefresh]
    /\ call' = [c \in Calls |->
                  IF c \in Waiting(s)
                  THEN [call[c] EXCEPT !.pc = "issue", !.token = refresh[s].token]
                  ELSE call[c]]
    /\ UNCHANGED <<conn, rows, google, held, removal, faults, history>>

\* Mutant: an error while marking is not passed on to the waiters.
RefreshFailedUnheard(s) ==
    /\ refresh[s].stage \in {"revoked", "error", "denied"}
    /\ \/ /\ conn' = markConnectionFailed(conn, refresh[s].id, "ERROR")
          /\ Reject(s, At(s, "denied"))
          /\ UNCHANGED faults
       \/ /\ Fault
          /\ refresh' = [refresh EXCEPT ![s] = NoRefresh]
          /\ UNCHANGED <<conn, call>>
    /\ UNCHANGED <<rows, google, held, removal, history>>

\* The catch block.  If the statement fails, its error replaces the first.
RefreshFailed(s) ==
    LET status == IF At(s, "revoked") THEN "REVOKED" ELSE "ERROR"
        marked == markConnectionFailed(conn, refresh[s].id, status)
    IN
    /\ refresh[s].stage \in {"revoked", "error", "denied"}
    /\ \/ /\ conn' = marked
          /\ Reject(s, At(s, "denied"))
          /\ UNCHANGED faults
       \/ /\ Fault
          /\ conn' \in {conn, marked}
          /\ Reject(s, FALSE)
    /\ UNCHANGED <<rows, google, held, removal, history>>

---------------------------------------------------------------------------
(* Re-authorising: the end of the OAuth callback *)

\* exchangeCodeForTokens: Google hands out a grant with a first token, unless
\* the request or the answer is lost on the way.
Exchange(g) ==
    /\ \/ /\ g \notin issued
          /\ issued' = issued \cup {g}
          /\ Mint
          /\ \/ held' = held \cup {NewToken(g)} /\ UNCHANGED faults
             \/ Fault /\ UNCHANGED held
       \/ Fault /\ UNCHANGED <<mints, issued, held>>
    /\ UNCHANGED <<conn, rows, lapsed, dead, refresh, call, removal, history>>

Stored(credential) ==
    /\ conn' = saveConnection(conn, credential)
    /\ rows' = IF conn = NoConnection THEN rows + 1 ELSE rows
    /\ overtaken' = \/ \E s \in Servers : InFlight(s) /\ matchesId(conn, refresh[s].id)
                    \/ \E c \in Calls : matchesId(conn, call[c].id)
    /\ call' = [c \in Calls |-> [call[c] EXCEPT !.cutOff = FALSE]]

Save(credential) ==
    /\ credential \in held
    /\ held' = held \ {credential}
    /\ \/ Stored(credential) /\ UNCHANGED faults
       \/ Stored(credential) /\ Fault
       \/ Fault /\ UNCHANGED <<conn, rows, overtaken, call>>
    /\ UNCHANGED <<google, refresh, removal, removed>>

\* The callback dies with what it holds.
Lose(credential) ==
    /\ credential \in held
    /\ held' = held \ {credential}
    /\ Fault
    /\ UNCHANGED <<conn, rows, google, refresh, call, removal, history>>

---------------------------------------------------------------------------
(* Disconnecting *)

DisconnectRead(a) ==
    /\ removal[a].pc = "idle"
    /\ conn # NoConnection
    /\ removal' = [removal EXCEPT ![a] = [pc |-> "revoke", grant |-> conn.grant]]
    /\ UNCHANGED <<conn, rows, google, held, refresh, call, faults, history>>

\* revokeToken swallows every failure, and Google may have acted on the request.
DisconnectRevoke(a) ==
    /\ removal[a].pc = "revoke"
    /\ \/ dead' = dead \cup {removal[a].grant} /\ UNCHANGED faults
       \/ dead' \in {dead, dead \cup {removal[a].grant}} /\ Fault
    /\ removal' = [removal EXCEPT ![a].pc = "delete"]
    /\ UNCHANGED <<conn, rows, mints, lapsed, issued, held, refresh, call, history>>

\* deleteConnection goes by the slug: whatever row is there goes.
DisconnectDelete(a) ==
    /\ removal[a].pc = "delete"
    /\ \/ /\ conn' = NoConnection
          /\ removed' = removed \cup {removal[a].grant}
          /\ UNCHANGED faults
       \/ /\ Fault
          /\ conn' \in {conn, NoConnection}
          /\ UNCHANGED removed
    /\ removal' = [removal EXCEPT ![a] = NoRemoval]
    /\ UNCHANGED <<rows, google, held, refresh, call, overtaken>>

---------------------------------------------------------------------------
\* The process disappears with its calls and its refresh.
Crash(s) ==
    /\ Fault
    /\ refresh' = [refresh EXCEPT ![s] = NoRefresh]
    /\ call' = [c \in Calls |-> IF call[c].server = s THEN Over ELSE call[c]]
    /\ UNCHANGED <<conn, rows, google, held, removal, history>>

CallStep(c) == Ask(c) \/ Join(c) \/ Issue(c)

RefreshStep(s) ==
    RefreshPost(s) \/ RefreshStore(s) \/ RefreshSettle(s) \/ RefreshFailed(s)

DisconnectStep(a) == DisconnectRead(a) \/ DisconnectRevoke(a) \/ DisconnectDelete(a)

World ==
    \/ \E g \in Grants : UserRevokes(g)
    \/ TokenAges
    \/ conn # NoConnection /\ conn.token # NoToken /\ TokenLapses(conn.token)

\* Everything but disconnecting and connecting anew.
Service ==
    \/ \E c \in Calls, s \in Servers : CallStart(c, s)
    \/ \E c \in Calls : CallStep(c)
    \/ \E s \in Servers : RefreshStep(s) \/ Crash(s)
    \/ World

Next ==
    \/ Service
    \/ \E a \in Admins : DisconnectStep(a)
    \/ \E g \in Grants : Exchange(g)
    \/ \E credential \in held : Save(credential) \/ Lose(credential)

Spec == Init /\ [][Next]_vars

---------------------------------------------------------------------------
(***************************************************************************)
(* Types.                                                                  *)
(***************************************************************************)
TokenTypeOK ==
    /\ conn \in Connections \cup {NoConnection}
    /\ rows \in Nat
    /\ mints \in Nat
    /\ lapsed \subseteq Tokens
    /\ issued \subseteq Grants
    /\ dead \subseteq Grants
    /\ held \subseteq Tokens
    /\ refresh \in [Servers -> Refreshes]
    /\ call \in [Calls -> CallRecords]
    /\ removal \in [Admins -> Removals]
    /\ faults \in 0..MaxFaults
    /\ removed \subseteq Grants
    /\ overtaken \in BOOLEAN

(***************************************************************************)
(* The second round after a 401 presents another token than the one that   *)
(* was refused, whichever refresh it has joined (client.ts, forceRefresh). *)
(* The exception is a refresh joined when it had stored its token and had  *)
(* not settled: that token may be the one the first round read.            *)
(***************************************************************************)
FreshAfter401 ==
    \A c \in Calls :
        call[c].pc = "issue" /\ call[c].round = 2 /\ ~call[c].stored =>
            call[c].token # call[c].refused

(***************************************************************************)
(* A call that begins when no account is connected gets no token, not even *)
(* from a refresh that is still in flight (requireConnection comes first). *)
(***************************************************************************)
NoServiceWhenCutOff ==
    \A c \in Calls :
        call[c].cutOff => call[c].pc \in {"idle", "ask"}

(***************************************************************************)
(* Once a disconnect has gone through, the credential it was about is not  *)
(* in the database again, whatever refresh or callback is still running    *)
(* (disconnect/route.ts: it must not leave a credential behind).           *)
(***************************************************************************)
RemovedStaysRemoved == conn # NoConnection => conn.grant \notin removed

(***************************************************************************)
(* The row tells the truth about its credential: its access token belongs  *)
(* to its refresh token, and REVOKED means that Google has dropped that    *)
(* refresh token.  The one exception is a row re-authorised while a        *)
(* refresh of it was in flight, or about to be, since the refresh's        *)
(* statements name the row and not the credential (doRefresh).             *)
(***************************************************************************)
RowMatchesCredential ==
    conn # NoConnection /\ ~overtaken =>
        /\ conn.token # NoToken => conn.token.grant = conn.grant
        /\ conn.status = "REVOKED" => conn.grant \in dead

(***************************************************************************)
(* No caller is left waiting for a refresh that has settled, failed or     *)
(* died with its process: whoever joined one in flight hears from it       *)
(* (inFlightRefresh and its finally).                                      *)
(***************************************************************************)
NobodyLeftWaiting ==
    \A c \in Calls : call[c].pc = "wait" => InFlight(call[c].server)
=============================================================================
