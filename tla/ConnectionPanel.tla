-------------------------- MODULE ConnectionPanel --------------------------
(***************************************************************************)
(* The Connection tab (app/components/ConnectionPanel.tsx): loading the    *)
(* accounts and their locations, pulling a location's reviews, and         *)
(* disconnecting, with what the server does for it (app/api/google/,       *)
(* reviews/sync.service.ts, the listings of src/google/, and ingestion).   *)
(*                                                                         *)
(* A tab is busy with one request at a time.  Its two pickers, for the     *)
(* account and for the location, keep what earlier requests have listed,   *)
(* also when the connection has gone or the other one is changed, and      *)
(* nothing ties the one to the other: a click names any of each.           *)
(***************************************************************************)
EXTENDS Directory

CONSTANTS
    Tabs,       \* mounted Connection tabs
    NoAccount,  \* nothing picked
    NoPlace,    \* no location picked
    MaxClicks   \* bound on the requests made in all

ASSUME ClicksAssumption == MaxClicks \in Nat

VARIABLES
    request,    \* the request that each tab waits for
    clicks      \* requests so far

tabVars == <<request, clicks>>

(***************************************************************************)
(* What a request still has to do; the connection it has resolved; its     *)
(* arguments; what Google has listed for it, or the account of the row it  *)
(* has found.                                                              *)
(***************************************************************************)
RequestRecords ==
    [pc : {"none", "accounts", "accountRows", "locations", "accountRow", "locationRows",
           "reviews", "find", "store", "disconnect"},
     id : ConnectionIds \cup {0}, account : Accounts \cup {NoAccount},
     location : GoogleLocations \cup {NoPlace},
     found : SUBSET (Accounts \cup GoogleLocations)]

NoRequest == [pc |-> "none", id |-> 0, account |-> NoAccount, location |-> NoPlace,
              found |-> {}]

TabInit ==
    /\ request = [t \in Tabs |-> NoRequest]
    /\ clicks = 0

isBusy(t) == request[t].pc # "none"

---------------------------------------------------------------------------
(* Clicks *)

Start(t, pc, a, l) ==
    /\ ~isBusy(t)
    /\ clicks < MaxClicks
    /\ clicks' = clicks + 1
    /\ request' = [request EXCEPT ![t].pc = pc, ![t].account = a, ![t].location = l]
    /\ UNCHANGED directory

loadAccounts(t) == Start(t, "accounts", NoAccount, NoPlace)

loadLocations(t) == \E a \in Accounts : Start(t, "locations", a, NoPlace)

pullReviews(t) == \E a \in Accounts, l \in GoogleLocations : Start(t, "reviews", a, l)

\* The button may be there on the strength of an earlier status.
disconnect(t) == Start(t, "disconnect", NoAccount, NoPlace)

---------------------------------------------------------------------------
(* On the server *)

At(t, pc) == request[t].pc = pc

Becomes(t, r) == request' = [request EXCEPT ![t] = r] /\ UNCHANGED clicks

\* The answer, and the tab is free again.
Answered(t) == Becomes(t, NoRequest)

\* The handler throws: not signed in, Google or the database fails, a foreign
\* key has gone, or there is no connection.
Fails(t) ==
    /\ isBusy(t)
    /\ Answered(t)
    /\ UNCHANGED directory

\* paginate: all pages up to the limit, so that a listing may be cut short.
Listed(all) == {all} \cup {all \ {last} : last \in all}

\* Google answers with the connection's token; then the connection is looked up.
Resolve(t, pc, all) ==
    /\ connection # 0
    /\ \E found \in Listed(all) :
          Becomes(t, [request[t] EXCEPT !.pc = pc, !.id = connection, !.found = found])
    /\ UNCHANGED directory

\* GET /api/google/accounts
syncAccounts(t) == At(t, "accounts") /\ Resolve(t, "accountRows", Accounts)

SaveAccounts(t) ==
    /\ At(t, "accountRows")
    /\ upsertAccounts(request[t].id, request[t].found)
    /\ Answered(t)

\* GET /api/google/locations
syncLocations(t) ==
    At(t, "locations") /\ Resolve(t, "accountRow", Listing[request[t].account])

\* The account's row is found, or made on demand.
EnsureAccount(t) ==
    /\ At(t, "accountRow")
    /\ IF findAccountRowId(request[t].id, request[t].account) THEN UNCHANGED directory
       ELSE upsertAccounts(request[t].id, {request[t].account})
    /\ Becomes(t, [request[t] EXCEPT !.pc = "locationRows"])

SaveLocations(t) ==
    /\ At(t, "locationRows")
    /\ upsertLocations(request[t].id, request[t].account, request[t].found)
    /\ Answered(t)

\* Mutant: the location alone, as the newer listings name it.
PullByLocation(t) ==
    /\ At(t, "reviews")
    /\ connection # 0
    /\ Becomes(t, [request[t] EXCEPT !.pc = "find"])
    /\ UNCHANGED directory

\* POST /api/google/reviews.  Google knows no reviews under an account that
\* does not list the location.
syncReviews(t) ==
    /\ At(t, "reviews")
    /\ connection # 0
    /\ IsListed(request[t].account, request[t].location)
    /\ Becomes(t, [request[t] EXCEPT !.pc = "find"])
    /\ UNCHANGED directory

\* ingestReview: a location that is not found, or found twice, makes the
\* review count as failed.
FindLocation(t) ==
    /\ At(t, "find")
    /\ IF findLocationRowId(request[t].location)
       THEN \E r \in locationRows(request[t].location) :
               Becomes(t, [request[t] EXCEPT !.pc = "store", !.id = r.connection,
                                             !.found = {r.account}])
       ELSE Answered(t)
    /\ UNCHANGED directory

\* The row found is known by its connection and account.
StoreReview(t) ==
    /\ At(t, "store")
    /\ \E a \in request[t].found :
          insertReview([connection |-> request[t].id, account |-> a,
                        location |-> request[t].location],
                       request[t].account, request[t].location)
    /\ Answered(t)

\* POST /api/auth/google/disconnect (see TokenStore).
Disconnect(t) ==
    /\ At(t, "disconnect")
    /\ deleteConnection
    /\ Answered(t)

Click(t) == loadAccounts(t) \/ loadLocations(t) \/ pullReviews(t) \/ disconnect(t)

Serve(t) ==
    \/ syncAccounts(t) \/ SaveAccounts(t)
    \/ syncLocations(t) \/ EnsureAccount(t) \/ SaveLocations(t)
    \/ syncReviews(t) \/ FindLocation(t) \/ StoreReview(t)
    \/ Disconnect(t) \/ Fails(t)

TabTypeOK == request \in [Tabs -> RequestRecords] /\ clicks \in 0..MaxClicks
=============================================================================
