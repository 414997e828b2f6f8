---------------------------- MODULE ConsentFlow ----------------------------
(***************************************************************************)
(* How an admin connects Google: the signed session cookie                 *)
(* (auth/session.ts), the OAuth state with its cookie                      *)
(* (auth/oauth-state.ts), the start and callback routes                    *)
(* (app/api/auth/google/), and the exchange of the code.                   *)
(*                                                                         *)
(* A flow is one visit to Google's consent screen; it ends in a callback   *)
(* URL, which a browser may open later, twice, or not at all, and which    *)
(* may be opened in another browser.  The connection that comes of it is   *)
(* TokenStore's.                                                           *)
(***************************************************************************)
EXTENDS TokenStore

CONSTANTS
    Browsers,
    MaxFlows,   \* bound on the visits to the consent screen
    Callbacks   \* callback requests that may be running at once

ASSUME FlowAssumption == Browsers # {} /\ MaxFlows \in Nat

Flows == 1..MaxFlows

VARIABLES
    session,    \* whether each browser's session cookie verifies
    nonce,      \* each browser's state cookie: the flow it names, 0 if none
    flow,       \* each flow
    callback,   \* each callback request
    (* History, read by properties only *)
    doubtful,   \* grants stored by a callback that should have been refused
    left        \* grants that were in the row and are no longer

flowVars == <<session, nonce, flow, callback, doubtful>>
allVars == <<vars, flowVars, left>>

(***************************************************************************)
(* late says that the state is older than OAUTH_STATE_TTL_SECONDS; grant   *)
(* stands for the code once the user has consented.                        *)
(***************************************************************************)
FlowRecords ==
    [status : {"unused", "open", "allowed", "declined"}, browser : Browsers,
     late : BOOLEAN, grant : Grants]

\* proper is history: the callback came to the browser that started its flow,
\* in time and signed in.
CallbackRecords ==
    [pc : {"idle", "exchange", "save"}, browser : Browsers, flow : Flows \cup {0},
     attempt : 1..MAX_TOKEN_ATTEMPTS, proper : BOOLEAN]

AnyBrowser == CHOOSE b \in Browsers : TRUE

NoFlow == [status |-> "unused", browser |-> AnyBrowser, late |-> FALSE,
           grant |-> FirstGrant]

NoCallback == [pc |-> "idle", browser |-> AnyBrowser, flow |-> 0, attempt |-> 1,
               proper |-> TRUE]

FlowInit ==
    /\ Init
    /\ session = [b \in Browsers |-> FALSE]
    /\ nonce = [b \in Browsers |-> 0]
    /\ flow = [n \in Flows |-> NoFlow]
    /\ callback = [k \in Callbacks |-> NoCallback]
    /\ doubtful = {}
    /\ left = {}

---------------------------------------------------------------------------
(* Sessions *)

isSignedIn(b) == session[b]

\* The login route, with the right password.
createSession(b) ==
    /\ ~session[b]
    /\ session' = [session EXCEPT ![b] = TRUE]
    /\ UNCHANGED <<vars, nonce, flow, callback, doubtful>>

\* The logout route, or SESSION_TTL_MS have passed.
destroySession(b) ==
    /\ session[b]
    /\ session' = [session EXCEPT ![b] = FALSE]
    /\ UNCHANGED <<vars, nonce, flow, callback, doubtful>>

---------------------------------------------------------------------------
(* Starting a flow *)

\* The start route: a new state replaces the one in the browser's cookie.
StartFlow(b) ==
    /\ isSignedIn(b)
    /\ \E n \in Flows :
          /\ \A m \in Flows : flow[m].status = "unused" <=> m >= n
          /\ flow' = [flow EXCEPT ![n].status = "open", ![n].browser = b]
          /\ nonce' = [nonce EXCEPT ![b] = n]
    /\ UNCHANGED <<vars, session, callback, doubtful>>

\* The user's answer at Google.  The code leads to a grant of its own.
UserAllows(n, g) ==
    /\ flow[n].status = "open"
    /\ g \notin issued
    /\ \A m \in Flows : flow[m].status = "allowed" => flow[m].grant # g
    /\ flow' = [flow EXCEPT ![n].status = "allowed", ![n].grant = g]
    /\ UNCHANGED <<vars, session, nonce, callback, doubtful>>

UserDeclines(n) ==
    /\ flow[n].status = "open"
    /\ flow' = [flow EXCEPT ![n].status = "declined"]
    /\ UNCHANGED <<vars, session, nonce, callback, doubtful>>

StateAges(n) ==
    /\ flow[n].status # "unused"
    /\ ~flow[n].late
    /\ flow' = [flow EXCEPT ![n].late = TRUE]
    /\ UNCHANGED <<vars, session, nonce, callback, doubtful>>

---------------------------------------------------------------------------
(* The callback *)

\* Mutant: the signature is enough, the cookie is not compared.
verifySignedState(b, n) == nonce[b] # 0 /\ ~flow[n].late

\* The signed nonce is the one in this browser's cookie, and young enough.
verifyOAuthState(b, n) == nonce[b] = n /\ ~flow[n].late

(***************************************************************************)
(* Every answer but the redirect to the login page deletes the state       *)
(* cookie, whichever flow it names by then.  The deletion is for the path  *)
(* `/' and the cookie was set for `/api/auth/google', so a browser may as  *)
(* well keep it.                                                           *)
(***************************************************************************)
finish(b) == nonce' \in {nonce, [nonce EXCEPT ![b] = 0]}

\* Browser b opens the callback URL of flow n.  Signed out, it is sent to the
\* login page and nothing changes.
CallbackArrives(k, b, n) ==
    /\ callback[k].pc = "idle"
    /\ flow[n].status \in {"allowed", "declined"}
    /\ isSignedIn(b)
    /\ IF flow[n].status = "allowed" /\ verifyOAuthState(b, n)
       THEN /\ callback' = [callback EXCEPT ![k] =
                  [pc |-> "exchange", browser |-> b, flow |-> n, attempt |-> 1,
                   proper |-> flow[n].browser = b /\ ~flow[n].late /\ isSignedIn(b)]]
            /\ UNCHANGED nonce
       ELSE finish(b) /\ UNCHANGED callback
    /\ UNCHANGED <<vars, session, flow, doubtful>>

grantOf(k) == flow[callback[k].flow].grant

Ends(k) ==
    /\ callback' = [callback EXCEPT ![k] = NoCallback]
    /\ finish(callback[k].browser)

(***************************************************************************)
(* One attempt of withRetry(postToken) with the code.  Google takes a code *)
(* once: after a lost answer, the next attempt is an invalid_grant, which  *)
(* ends the callback.  So does any other error that is not retried, and an *)
(* answer without a refresh token.                                         *)
(***************************************************************************)
ExchangeCode(k) ==
    /\ callback[k].pc = "exchange"
    /\ \/ /\ Exchange(grantOf(k))
          /\ held' # held
          /\ callback' = [callback EXCEPT ![k].pc = "save"]
          /\ UNCHANGED nonce
       \/ /\ Exchange(grantOf(k))
          /\ held' = held
          /\ \/ /\ callback[k].attempt < MAX_TOKEN_ATTEMPTS
                /\ callback' = [callback EXCEPT ![k].attempt = @ + 1]
                /\ UNCHANGED nonce
             \/ Ends(k)
       \/ /\ grantOf(k) \in issued
          /\ Ends(k)
          /\ UNCHANGED vars
    /\ UNCHANGED <<session, flow, doubtful>>

\* Mutant: a save that failed is tried again, like a token request.
SaveRetried(k) ==
    /\ callback[k].pc = "save"
    /\ \E credential \in held :
          /\ credential.grant = grantOf(k)
          /\ \/ Save(credential) /\ Ends(k)
             \/ /\ Stored(credential) /\ Fault
                /\ UNCHANGED <<google, held, refresh, removal, removed, nonce, callback>>
    /\ UNCHANGED <<session, flow, doubtful>>

\* saveConnection, once: if it fails, the credential is given up, stored or not.
SaveCredential(k) ==
    /\ callback[k].pc = "save"
    /\ \E credential \in held : credential.grant = grantOf(k) /\ Save(credential)
    /\ doubtful' = IF callback[k].proper THEN doubtful
                   ELSE doubtful \cup {grantOf(k)}
    /\ Ends(k)
    /\ UNCHANGED <<session, flow>>

\* The runtime disappears; the browser keeps its cookie.
CallbackCrashes(k) ==
    /\ callback[k].pc # "idle"
    /\ callback' = [callback EXCEPT ![k] = NoCallback]
    /\ \/ /\ callback[k].pc = "save"
          /\ \E credential \in held :
                credential.grant = grantOf(k) /\ Lose(credential)
       \/ /\ callback[k].pc = "exchange"
          /\ Exchange(grantOf(k))
          /\ held' = held
    /\ UNCHANGED <<session, nonce, flow, doubtful>>

---------------------------------------------------------------------------
BrowserStep(b) ==
    \/ createSession(b) \/ destroySession(b)
    \/ StartFlow(b)
    \/ \E k \in Callbacks, n \in Flows : CallbackArrives(k, b, n)

FlowStep(n) ==
    \/ \E g \in Grants : UserAllows(n, g)
    \/ UserDeclines(n)
    \/ StateAges(n)

CallbackStep(k) == ExchangeCode(k) \/ SaveCredential(k)

\* The disconnect route, too, is for those signed in (withAdmin).
DisconnectWhenSignedIn(a) ==
    /\ removal[a].pc = "idle" => \E b \in Browsers : isSignedIn(b)
    /\ DisconnectStep(a)

\* A credential that is replaced or removed has left the row.
Departs ==
    left' = IF conn # NoConnection /\ (conn' = NoConnection \/ conn'.grant # conn.grant)
            THEN left \cup {conn.grant} ELSE left

FlowNext ==
    /\ \/ \E b \in Browsers : BrowserStep(b)
       \/ \E n \in Flows : FlowStep(n)
       \/ \E k \in Callbacks : CallbackStep(k) \/ CallbackCrashes(k)
       \/ \E a \in Admins : DisconnectWhenSignedIn(a) /\ UNCHANGED flowVars
       \/ Service /\ UNCHANGED flowVars
    /\ Departs

FlowSpec == FlowInit /\ [][FlowNext]_allVars

---------------------------------------------------------------------------
(***************************************************************************)
(* Whatever URLs are opened where and when, and however flows overlap in   *)
(* one browser, a credential is stored only by a callback that came, in    *)
(* time and signed in, to the browser that started its flow                *)
(* (oauth-state.ts, callback/route.ts).                                    *)
(***************************************************************************)
StoredByItsFlow == doubtful = {}

(***************************************************************************)
(* A credential that was replaced by a newer consent, or removed, never    *)
(* comes back into the row, whichever callbacks of older flows, repeated   *)
(* requests and saves that failed after they were applied are still under  *)
(* way (callback/route.ts exchanges a code and saves what comes of it at   *)
(* most once).                                                             *)
(***************************************************************************)
NeverComesBack == conn # NoConnection => conn.grant \notin left
=============================================================================
