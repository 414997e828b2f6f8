------------------------- MODULE ConsentFlowProofs -------------------------
(***************************************************************************)
(* Proofs about ConsentFlow, for any number of browsers, flows and         *)
(* callbacks: whose callbacks store a credential, that what has left the   *)
(* row does not come back, and that what is proved of TokenStore holds     *)
(* while flows are under way.                                              *)
(***************************************************************************)
EXTENDS ConsentFlow, TokenStoreProofs

---------------------------------------------------------------------------
(* The inductive invariant *)

\* A callback that is running is about one of the flows.
FlowTypes ==
    /\ nonce \in [Browsers -> Flows \cup {0}]
    /\ flow \in [Flows -> FlowRecords]
    /\ callback \in [Callbacks -> CallbackRecords]
    /\ \A k \in Callbacks : callback[k].pc # "idle" => callback[k].flow \in Flows

\* A state cookie names a flow that has been started, and by its browser.
CookieIsOwn ==
    \A b \in Browsers :
        nonce[b] # 0 => /\ flow[nonce[b]].status # "unused"
                        /\ flow[nonce[b]].browser = b

AllProper == \A k \in Callbacks : callback[k].proper

FlowInv == FlowTypes /\ CookieIsOwn /\ AllProper /\ StoredByItsFlow

LEMMA NoneType ==
    /\ NoFlow \in FlowRecords
    /\ NoCallback \in CallbackRecords
    /\ NoCallback.proper
    /\ NoCallback.pc = "idle"
<1>1. AnyBrowser \in Browsers
  BY FlowAssumption DEF AnyBrowser
<1>2. 1 \in 1..MAX_TOKEN_ATTEMPTS
  BY ConnectionAssumption
<1> QED
  BY <1>1, <1>2, ConnectionAssumption DEF NoFlow, FlowRecords, NoCallback, CallbackRecords

LEMMA FlowInvInit == FlowInit => FlowInv
<1> SUFFICES ASSUME FlowInit PROVE FlowInv
  OBVIOUS
<1>1. FlowTypes
  BY NoneType DEF FlowInit, FlowTypes
<1>2. CookieIsOwn
  BY DEF FlowInit, CookieIsOwn
<1>3. AllProper
  BY NoneType DEF FlowInit, AllProper
<1> QED
  BY <1>1, <1>2, <1>3 DEF FlowInv, FlowInit, StoredByItsFlow

---------------------------------------------------------------------------
(* What the steps do to the flows *)

\* The deletion of a cookie, and the end of a callback.
LEMMA FinishKeeps ==
    ASSUME FlowTypes, CookieIsOwn, NEW b \in Browsers, finish(b), UNCHANGED flow
    PROVE  nonce' \in [Browsers -> Flows \cup {0}] /\ CookieIsOwn'
<1>1. CASE nonce' = nonce
  BY <1>1 DEF FlowTypes, CookieIsOwn
<1>2. CASE nonce' = [nonce EXCEPT ![b] = 0]
  BY <1>2 DEF FlowTypes, CookieIsOwn
<1> QED
  BY <1>1, <1>2 DEF finish

LEMMA EndsKeeps ==
    ASSUME FlowInv, NEW k \in Callbacks, Ends(k), UNCHANGED flow
    PROVE  (FlowTypes /\ CookieIsOwn /\ AllProper)'
<1>1. callback[k].browser \in Browsers
  BY DEF FlowInv, FlowTypes, CallbackRecords
<1>2. nonce' \in [Browsers -> Flows \cup {0}] /\ CookieIsOwn'
  BY <1>1, FinishKeeps DEF FlowInv, Ends
<1>3. callback' = [callback EXCEPT ![k] = NoCallback]
  BY DEF Ends
<1> QED
  BY <1>2, <1>3, NoneType DEF FlowInv, FlowTypes, AllProper

LEMMA BrowserKeeps ==
    ASSUME FlowInv, NEW b \in Browsers, BrowserStep(b)
    PROVE  FlowInv'
<1>1. CASE createSession(b) \/ destroySession(b)
  BY <1>1 DEF FlowInv, FlowTypes, CookieIsOwn, AllProper, StoredByItsFlow,
              createSession, destroySession
<1>2. CASE StartFlow(b)
  <2>1. PICK n \in Flows :
            /\ \A m \in Flows : flow[m].status = "unused" <=> m >= n
            /\ flow' = [flow EXCEPT ![n].status = "open", ![n].browser = b]
            /\ nonce' = [nonce EXCEPT ![b] = n]
    BY <1>2 DEF StartFlow
  <2>2. flow[n].status = "unused"
    BY <2>1 DEF Flows
  <2>3. UNCHANGED <<callback, doubtful>>
    BY <1>2 DEF StartFlow
  <2>4. FlowTypes'
    BY <2>1, <2>3 DEF FlowInv, FlowTypes, FlowRecords
  <2>5. CookieIsOwn'
    <3> SUFFICES ASSUME NEW c \in Browsers, nonce'[c] # 0
                 PROVE  /\ flow'[nonce'[c]].status # "unused"
                        /\ flow'[nonce'[c]].browser = c
      BY DEF CookieIsOwn
    <3>1. CASE c = b
      BY <2>1, <3>1 DEF FlowInv, FlowTypes
    <3>2. CASE c # b
      <4>1. nonce'[c] = nonce[c] /\ nonce[c] \in Flows
        BY <2>1, <3>2 DEF FlowInv, FlowTypes
      <4>2. nonce[c] # n
        BY <2>2, <4>1 DEF FlowInv, CookieIsOwn
      <4> QED
        BY <2>1, <4>1, <4>2 DEF FlowInv, FlowTypes, CookieIsOwn
    <3> QED
      BY <3>1, <3>2
  <2> QED
    BY <2>3, <2>4, <2>5 DEF FlowInv, AllProper, StoredByItsFlow
<1>3. ASSUME NEW k \in Callbacks, NEW n \in Flows, CallbackArrives(k, b, n)
      PROVE  FlowInv'
  <2>1. UNCHANGED <<flow, doubtful>>
    BY <1>3 DEF CallbackArrives
  <2>2. CASE flow[n].status = "allowed" /\ verifyOAuthState(b, n)
    <3>1. callback' = [callback EXCEPT ![k] =
              [pc |-> "exchange", browser |-> b, flow |-> n, attempt |-> 1,
               proper |-> flow[n].browser = b /\ ~flow[n].late /\ isSignedIn(b)]]
          /\ nonce' = nonce
      BY <1>3, <2>2 DEF CallbackArrives
    <3>2. flow[n].browser = b /\ ~flow[n].late /\ isSignedIn(b)
      BY <1>3, <2>2 DEF FlowInv, CookieIsOwn, verifyOAuthState, Flows, CallbackArrives
    <3>3. 1 \in 1..MAX_TOKEN_ATTEMPTS
      BY ConnectionAssumption
    <3>4. FlowTypes'
      BY <2>1, <3>1, <3>2, <3>3 DEF FlowInv, FlowTypes, CallbackRecords
    <3> QED
      BY <2>1, <3>1, <3>2, <3>4
         DEF FlowInv, FlowTypes, CookieIsOwn, AllProper, StoredByItsFlow
  <2>3. CASE ~(flow[n].status = "allowed" /\ verifyOAuthState(b, n))
    <3>1. finish(b) /\ callback' = callback
      BY <1>3, <2>3 DEF CallbackArrives
    <3> QED
      BY <2>1, <3>1, FinishKeeps DEF FlowInv, FlowTypes, AllProper, StoredByItsFlow
  <2> QED
    BY <2>2, <2>3
<1> QED
  BY <1>1, <1>2, <1>3 DEF BrowserStep

LEMMA UserKeeps ==
    ASSUME FlowInv, NEW n \in Flows, FlowStep(n)
    PROVE  FlowInv'
<1>1. UNCHANGED <<nonce, callback, doubtful>>
  BY DEF FlowStep, UserAllows, UserDeclines, StateAges
<1>2. /\ flow' \in [Flows -> FlowRecords]
      /\ \A m \in Flows : /\ flow'[m].browser = flow[m].browser
                          /\ flow[m].status # "unused" => flow'[m].status # "unused"
  <2>1. ASSUME NEW g \in Grants, UserAllows(n, g)
        PROVE  <1>2!1 /\ <1>2!2
    BY <2>1 DEF UserAllows, FlowInv, FlowTypes, FlowRecords
  <2>2. CASE UserDeclines(n)
    BY <2>2 DEF UserDeclines, FlowInv, FlowTypes, FlowRecords
  <2>3. CASE StateAges(n)
    BY <2>3 DEF StateAges, FlowInv, FlowTypes, FlowRecords
  <2> QED
    BY <2>1, <2>2, <2>3 DEF FlowStep
<1>3. CookieIsOwn'
  BY <1>1, <1>2 DEF FlowInv, FlowTypes, CookieIsOwn
<1> QED
  BY <1>1, <1>2, <1>3 DEF FlowInv, FlowTypes, AllProper, StoredByItsFlow

\* A callback that goes on with another stage or another attempt.
LEMMA GoesOn ==
    ASSUME FlowInv, NEW k \in Callbacks, callback[k].pc # "idle",
           UNCHANGED <<nonce, flow>>,
           \/ callback' = [callback EXCEPT ![k].pc = "save"]
           \/ /\ callback[k].attempt < MAX_TOKEN_ATTEMPTS
              /\ callback' = [callback EXCEPT ![k].attempt = @ + 1]
    PROVE  (FlowTypes /\ CookieIsOwn /\ AllProper)'
<1>1. \A n \in 1..MAX_TOKEN_ATTEMPTS : n < MAX_TOKEN_ATTEMPTS => n + 1 \in 1..MAX_TOKEN_ATTEMPTS
  BY ConnectionAssumption
<1>2. callback[k] \in CallbackRecords
  BY DEF FlowInv, FlowTypes
<1>3. /\ callback' \in [Callbacks -> CallbackRecords]
      /\ \A j \in Callbacks : /\ callback'[j].proper = callback[j].proper
                              /\ callback'[j].flow = callback[j].flow
                              /\ callback'[j].pc # "idle" => callback[j].pc # "idle"
  <2>1. CASE callback' = [callback EXCEPT ![k].pc = "save"]
    BY <1>2, <2>1 DEF FlowInv, FlowTypes, CallbackRecords
  <2>2. CASE /\ callback[k].attempt < MAX_TOKEN_ATTEMPTS
             /\ callback' = [callback EXCEPT ![k].attempt = @ + 1]
    <3>1. callback[k].attempt + 1 \in 1..MAX_TOKEN_ATTEMPTS
      BY <1>1, <1>2, <2>2 DEF CallbackRecords
    <3> QED
      BY <1>2, <2>2, <3>1 DEF FlowInv, FlowTypes, CallbackRecords
  <2> QED
    BY <2>1, <2>2
<1> QED
  BY <1>3 DEF FlowInv, FlowTypes, CookieIsOwn, AllProper

LEMMA CallbackKeeps ==
    ASSUME FlowInv, NEW k \in Callbacks, CallbackStep(k) \/ CallbackCrashes(k)
    PROVE  FlowInv'
<1>1. CASE ExchangeCode(k)
  <2>1. UNCHANGED <<flow, doubtful>>
    BY <1>1 DEF ExchangeCode
  <2>2. (FlowTypes /\ CookieIsOwn /\ AllProper)'
    BY <1>1, <2>1, GoesOn, EndsKeeps DEF ExchangeCode
  <2> QED
    BY <2>1, <2>2 DEF FlowInv, StoredByItsFlow
<1>2. CASE SaveCredential(k)
  <2>1. doubtful' = doubtful
    BY <1>2 DEF SaveCredential, FlowInv, AllProper
  <2>2. (FlowTypes /\ CookieIsOwn /\ AllProper)'
    BY <1>2, EndsKeeps DEF SaveCredential
  <2> QED
    BY <2>1, <2>2 DEF FlowInv, StoredByItsFlow
<1>3. CASE CallbackCrashes(k)
  <2>1. /\ callback' = [callback EXCEPT ![k] = NoCallback]
        /\ UNCHANGED <<nonce, flow, doubtful>>
    BY <1>3 DEF CallbackCrashes
  <2> QED
    BY <2>1, NoneType DEF FlowInv, FlowTypes, CookieIsOwn, AllProper, StoredByItsFlow
<1> QED
  BY <1>1, <1>2, <1>3 DEF CallbackStep

LEMMA FlowInvStep == FlowInv /\ [FlowNext]_allVars => FlowInv'
<1> SUFFICES ASSUME FlowInv, [FlowNext]_allVars PROVE FlowInv'
  OBVIOUS
<1>1. ASSUME UNCHANGED flowVars PROVE FlowInv'
  BY <1>1 DEF flowVars, FlowInv, FlowTypes, CookieIsOwn, AllProper, StoredByItsFlow
<1> QED
  BY <1>1, BrowserKeeps, UserKeeps, CallbackKeeps DEF FlowNext, allVars

(***************************************************************************)
(* A credential is stored only by a callback that came, in time and signed *)
(* in, to the browser that started its flow.  FlowInv adds to the property *)
(* that a state cookie names a flow its own browser has started.           *)
(***************************************************************************)
THEOREM StoredByItsFlowCorrect == FlowSpec => []StoredByItsFlow
<1>1. FlowInv => StoredByItsFlow
  BY DEF FlowInv
<1> QED
  BY <1>1, FlowInvInit, FlowInvStep, PTL DEF FlowSpec

---------------------------------------------------------------------------
(* The connection under flows *)

LEMMA FlowStepIsNext == FlowInv /\ [FlowNext]_allVars => [Next]_vars
<1> SUFFICES ASSUME FlowInv, [FlowNext]_allVars PROVE [Next]_vars
  OBVIOUS
<1>1. ASSUME NEW k \in Callbacks, callback[k].pc # "idle" PROVE grantOf(k) \in Grants
  BY <1>1 DEF FlowInv, FlowTypes, FlowRecords, grantOf
<1>2. ASSUME NEW b \in Browsers, BrowserStep(b) PROVE UNCHANGED vars
  BY <1>2 DEF BrowserStep, createSession, destroySession, StartFlow, CallbackArrives
<1>3. ASSUME NEW n \in Flows, FlowStep(n) PROVE UNCHANGED vars
  BY <1>3 DEF FlowStep, UserAllows, UserDeclines, StateAges
<1>4. ASSUME NEW k \in Callbacks, CallbackStep(k) \/ CallbackCrashes(k) PROVE [Next]_vars
  <2>1. CASE ExchangeCode(k)
    BY <1>1, <2>1 DEF ExchangeCode, Next
  <2>2. CASE SaveCredential(k)
    BY <2>2 DEF SaveCredential, Next
  <2>3. CASE CallbackCrashes(k)
    BY <1>1, <2>3 DEF CallbackCrashes, Next
  <2> QED
    BY <1>4, <2>1, <2>2, <2>3 DEF CallbackStep
<1> QED
  BY <1>2, <1>3, <1>4 DEF FlowNext, DisconnectWhenSignedIn, Next, allVars

(***************************************************************************)
(* The actions above touch the connection through TokenStore's own actions *)
(* only, so this is no more than what lets TokenStore's theorems speak of  *)
(* flows.                                                                  *)
(***************************************************************************)
LEMMA FlowIsTokenStore == FlowSpec => Spec
<1>1. FlowInit => Init
  BY DEF FlowInit
<1> QED
  BY <1>1, FlowInvInit, FlowInvStep, FlowStepIsNext, PTL DEF FlowSpec, Spec

(***************************************************************************)
(* What the connection promises to its calls and to those who disconnect   *)
(* it, it promises whatever flows are under way.                           *)
(***************************************************************************)
THEOREM ConnectionKeepsItsPromises ==
    FlowSpec => [](/\ TokenTypeOK
                   /\ FreshAfter401
                   /\ NoServiceWhenCutOff
                   /\ RemovedStaysRemoved
                   /\ RowMatchesCredential
                   /\ NobodyLeftWaiting)
  BY FlowIsTokenStore, TokenTypes, SecondRoundIsFresh, CutOffIsServedNothing,
     RemovedIsFinal, RowIsTrue, WaitersAreHeard, PTL

---------------------------------------------------------------------------
(* What has left the row stays away *)

\* Nothing that has left the row is in it or is held by a callback, and what has
\* left was issued, so that no exchange can hand it out anew.
LeftInv ==
    /\ TokenTypeOK /\ OwnedOnce /\ FlowInv
    /\ NeverComesBack
    /\ left \subseteq issued
    /\ \A t \in held : t.grant \notin left

\* A credential in the row after a step was there before, or was held.
LEMMA WhatIsStored ==
    ASSUME TokenTypeOK, OwnedOnce, [Next]_vars
    PROVE  /\ issued \subseteq issued'
           /\ conn' # NoConnection =>
                 \/ conn # NoConnection /\ conn'.grant = conn.grant
                 \/ \E t \in held : conn'.grant = t.grant
           /\ \A t \in held' : t \in held \/ t.grant \notin issued
<1>1. NoConnection \notin Connections
  BY ConnectionAssumption
<1>2. ASSUME NEW c \in Calls, (\E s \in Servers : CallStart(c, s)) \/ CallStep(c)
      PROVE  UNCHANGED <<conn, issued, held>>
  BY <1>2 DEF CallStart, CallStep, Ask, Join, Issue, google
<1>3. ASSUME NEW s \in Servers, RefreshStep(s) \/ Crash(s)
      PROVE  /\ UNCHANGED <<issued, held>>
             /\ conn' # NoConnection => conn # NoConnection /\ conn'.grant = conn.grant
  <2>1. CASE RefreshPost(s) \/ RefreshSettle(s) \/ Crash(s)
    BY <2>1 DEF RefreshPost, RefreshSettle, Crash, google
  <2>2. CASE RefreshStore(s)
    BY <1>1, <2>2 DEF RefreshStore, google, updateAccessToken, matchesId, TokenTypeOK,
                      Connections
  <2>3. CASE RefreshFailed(s)
    BY <1>1, <2>3 DEF RefreshFailed, google, markConnectionFailed, matchesId,
                      TokenTypeOK, Connections
  <2> QED
    BY <1>3, <2>1, <2>2, <2>3 DEF RefreshStep
<1>4. ASSUME World
      PROVE  /\ UNCHANGED <<issued, held>>
             /\ conn' # NoConnection => conn # NoConnection /\ conn'.grant = conn.grant
  BY <1>1, <1>4 DEF World, UserRevokes, TokenAges, TokenLapses, google, TokenTypeOK,
                    Connections
<1>5. ASSUME NEW a \in Admins, DisconnectStep(a)
      PROVE  UNCHANGED <<issued, held>> /\ conn' \in {conn, NoConnection}
  BY <1>5 DEF DisconnectStep, DisconnectRead, DisconnectRevoke, DisconnectDelete, google
<1>6. ASSUME NEW g \in Grants, Exchange(g)
      PROVE  /\ conn' = conn /\ issued \subseteq issued'
             /\ \A t \in held' : t \in held \/ t.grant \notin issued
  BY <1>6 DEF Exchange, NewToken
<1>7. ASSUME NEW t \in held, Save(t) \/ Lose(t)
      PROVE  /\ issued' = issued /\ held' \subseteq held
             /\ conn' = conn \/ (conn' # NoConnection => conn'.grant = t.grant)
  <2>1. CASE Save(t)
    <3>1. saveConnection(conn, t).grant = t.grant
      BY DEF saveConnection
    <3> QED
      BY <2>1, <3>1 DEF Save, Stored, google
  <2>2. CASE Lose(t)
    BY <2>2 DEF Lose, google
  <2> QED
    BY <1>7, <2>1, <2>2
<1>8. CASE UNCHANGED vars
  BY <1>8 DEF vars, google
<1> QED
  BY <1>2, <1>3, <1>4, <1>5, <1>6, <1>7, <1>8 DEF Next, Service

LEMMA LeftStep == LeftInv /\ [FlowNext]_allVars => LeftInv'
<1> SUFFICES ASSUME LeftInv, [FlowNext]_allVars PROVE LeftInv'
  OBVIOUS
<1>1. [Next]_vars
  BY FlowStepIsNext DEF LeftInv
<1>2. TokenTypeOK' /\ OwnedOnce' /\ FlowInv'
  BY <1>1, TypeStep, OwnedStep, FlowInvStep DEF LeftInv
<1>3. /\ issued \subseteq issued'
      /\ conn' # NoConnection =>
            \/ conn # NoConnection /\ conn'.grant = conn.grant
            \/ \E t \in held : conn'.grant = t.grant
      /\ \A t \in held' : t \in held \/ t.grant \notin issued
  BY <1>1, WhatIsStored DEF LeftInv
<1>4. \/ left' = left
      \/ /\ conn # NoConnection
         /\ conn' = NoConnection \/ conn'.grant # conn.grant
         /\ left' = left \cup {conn.grant}
  BY DEF FlowNext, Departs, allVars
<1>5. left' \subseteq issued'
  BY <1>3, <1>4 DEF LeftInv, OwnedOnce
<1>6. NeverComesBack'
  <2> SUFFICES ASSUME conn' # NoConnection PROVE conn'.grant \notin left'
    BY DEF NeverComesBack
  <2>1. conn'.grant \notin left
    BY <1>3 DEF LeftInv, NeverComesBack
  <2> QED
    BY <1>4, <2>1
<1>7. \A t \in held' : t.grant \notin left'
  BY <1>3, <1>4 DEF LeftInv, OwnedOnce
<1> QED
  BY <1>2, <1>5, <1>6, <1>7 DEF LeftInv

(***************************************************************************)
(* A credential that was replaced or removed is never stored again, for    *)
(* any number of flows, callbacks, disconnects and failed saves.           *)
(***************************************************************************)
THEOREM NeverComesBackCorrect == FlowSpec => []NeverComesBack
<1>1. FlowInit => LeftInv
  <2> SUFFICES ASSUME FlowInit PROVE LeftInv
    OBVIOUS
  <2>1. Init /\ left = {}
    BY DEF FlowInit
  <2>2. TokenTypeOK /\ OwnedOnce /\ FlowInv
    BY <2>1, TypeInit, FlowInvInit DEF Init, OwnedOnce, NoRemoval
  <2> QED
    BY <2>1, <2>2 DEF LeftInv, NeverComesBack, Init
<1>2. LeftInv => NeverComesBack
  BY DEF LeftInv
<1> QED
  BY <1>1, <1>2, LeftStep, PTL DEF FlowSpec
=============================================================================
