----------------------------- MODULE Directory -----------------------------
(***************************************************************************)
(* What the database knows of the business: the connection, the accounts   *)
(* and locations synchronised from Google, each location's settings and    *)
(* reviews (supabase/migrations/0001_init.sql), and the statements of      *)
(* review.repository.ts, settings.repository.ts and                        *)
(* connection.repository.ts on them.                                       *)
(*                                                                         *)
(* The one row that is ever deleted is the connection, and everything else *)
(* goes with it, so rows are known by the connection they hang from.       *)
(***************************************************************************)
EXTENDS Naturals, FiniteSets

CONSTANTS
    Accounts,         \* Google accounts
    GoogleLocations,  \* Google's location ids
    Listing,          \* the locations Google lists under each account
    Voices,           \* what the settings say beside the switch
    NoVoice,          \* an empty text, stored as null
    NoSettings,       \* no row in business_settings
    MaxConnections    \* bound on the times Google is connected

ASSUME DirectoryAssumption ==
    /\ Listing \in [Accounts -> SUBSET GoogleLocations]
    /\ NoVoice \notin Voices
    /\ NoSettings \notin [auto : BOOLEAN, voice : Voices \cup {NoVoice}]
    /\ MaxConnections \in Nat \ {0}

\* auto stands for the two auto-publish switches and the lowest rating.
Settings == [auto : BOOLEAN, voice : Voices \cup {NoVoice}]
SettingsOrNone == Settings \cup {NoSettings}

ConnectionIds == 1..MaxConnections

\* A row of locations, by its keys.
LocationIds ==
    [connection : ConnectionIds, account : Accounts, location : GoogleLocations]

VARIABLES
    connection,  \* the id of the connection, 0 if there is none
    connections, \* connections so far
    accounts,    \* the accounts with a row
    settings,    \* of each row of locations, its row of business_settings
    reviews      \* rows of reviews, which hang from their location

directory == <<connection, connections, accounts, settings, reviews>>

\* A review knows the account and the location it is to be answered under.
ReviewRecords ==
    [row : LocationIds, account : Accounts, location : GoogleLocations]

Rows == DOMAIN settings

\* The rows that a location may have under the current connection.
LocationId(a, l) == [connection |-> connection, account |-> a, location |-> l]

IsListed(a, l) == l \in Listing[a]

\* Synchronised with Google, or connected and nothing else.
DirectoryInit ==
    /\ connection = 1
    /\ connections = 1
    /\ reviews = {}
    /\ \/ accounts = {} /\ settings = <<>>
       \/ /\ accounts = Accounts
          /\ settings = [r \in {LocationId(a, l) : a \in Accounts, l \in GoogleLocations}
                                \cap {r \in LocationIds : IsListed(r.account, r.location)}
                           |-> NoSettings]

---------------------------------------------------------------------------
(* Statements.  One whose foreign key has gone fails and changes nothing. *)

\* The OAuth callback has saved a connection (see ConsentFlow).  Over a row
\* that is there it keeps the id.
saveConnection ==
    /\ connection = 0
    /\ connections < MaxConnections
    /\ connections' = connections + 1
    /\ connection' = connections + 1
    /\ UNCHANGED <<accounts, settings, reviews>>

\* on delete cascade, from google_connections down.
deleteConnection ==
    /\ connection' = 0
    /\ accounts' = {}
    /\ settings' = <<>>
    /\ reviews' = {}
    /\ UNCHANGED connections

\* Mutant: the connection an account belongs to is not a foreign key.
keyHoldsAnyway(id) == TRUE

\* The connection that a statement's row hangs from is still there.
keyHolds(id) == id # 0 /\ connection = id

upsertAccounts(id, found) ==
    /\ keyHolds(id)
    /\ accounts' = accounts \cup found
    /\ UNCHANGED <<connection, connections, settings, reviews>>

findAccountRowId(id, a) == connection = id /\ a \in accounts

\* Mutant: the listing replaces the account's rows.
replaceLocations(id, a, found) ==
    LET row(l) == [connection |-> id, account |-> a, location |-> l] IN
    /\ findAccountRowId(id, a)
    /\ settings' = [r \in {r \in Rows : r.account # a} \cup {row(l) : l \in found}
                      |-> IF r \in Rows /\ r.account # a THEN settings[r]
                                                         ELSE NoSettings]
    /\ UNCHANGED <<connection, connections, accounts, reviews>>

\* An upsert: rows that are there keep what hangs from them, and no row goes.
upsertLocations(id, a, found) ==
    LET row(l) == [connection |-> id, account |-> a, location |-> l] IN
    /\ findAccountRowId(id, a)
    /\ settings' = [r \in Rows \cup {row(l) : l \in found}
                      |-> IF r \in Rows THEN settings[r] ELSE NoSettings]
    /\ UNCHANGED <<connection, connections, accounts, reviews>>

\* By Google's location id alone.  Two accounts that list the same location
\* make two rows, and maybeSingle an error of it.
locationRows(l) == {r \in Rows : r.location = l}

findLocationRowId(l) == Cardinality(locationRows(l)) = 1

\* One row per location and review id; a review that is there stays.
insertReview(r, a, l) ==
    /\ r \in Rows
    /\ reviews' = IF \E known \in reviews : known.row = r THEN reviews
                  ELSE reviews \cup {[row |-> r, account |-> a, location |-> l]}
    /\ UNCHANGED <<connection, connections, accounts, settings>>

listLocationRows == Rows

getBusinessSettings(r) == IF r \in Rows THEN settings[r] ELSE NoSettings

upsertBusinessSettings(r, body) ==
    /\ r \in Rows
    /\ settings' = [settings EXCEPT ![r] = body]
    /\ UNCHANGED <<connection, connections, accounts, reviews>>

\* What generation and the policy take a location's settings to be: without a
\* row, no verified facts and nothing that posts itself.
resolveLocationConfig(s) ==
    IF s = NoSettings THEN [auto |-> FALSE, voice |-> NoVoice] ELSE s

---------------------------------------------------------------------------
\* Nothing hangs from a row that is not there.
DirectoryTypeOK ==
    /\ connection \in ConnectionIds \cup {0}
    /\ connections \in ConnectionIds
    /\ accounts \subseteq Accounts
    /\ Rows \subseteq LocationIds
    /\ \A r \in Rows : settings[r] \in SettingsOrNone
    /\ reviews \subseteq ReviewRecords
=============================================================================
