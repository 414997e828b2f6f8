------------------------------ MODULE Console ------------------------------
(***************************************************************************)
(* Admins in the Settings and Connection tabs of the console, over one     *)
(* database: settings are edited while locations are synchronised and the  *)
(* connection comes and goes.                                              *)
(***************************************************************************)
EXTENDS SettingsPanel, ConnectionPanel

consoleVars == <<directory, settingsVars, tabVars>>

ConsoleInit == DirectoryInit /\ SettingsInit /\ TabInit

Editing == \E p \in Panels : PanelStep(p)

Connecting == \E t \in Tabs : Click(t) \/ Serve(t)

ConsoleNext ==
    \/ Editing /\ UNCHANGED tabVars
    \/ Connecting /\ UNCHANGED settingsVars
    \/ saveConnection /\ UNCHANGED <<settingsVars, tabVars>>

ConsoleSpec == ConsoleInit /\ [][ConsoleNext]_consoleVars

---------------------------------------------------------------------------
(***************************************************************************)
(* Types, foreign keys included.                                           *)
(***************************************************************************)
ConsoleTypeOK == DirectoryTypeOK /\ SettingsTypeOK /\ TabTypeOK

(***************************************************************************)
(* Whatever synchronisation, pull or save is under way when the connection *)
(* goes, nothing that belongs to it is written any more, not even after    *)
(* Google has been connected anew: accounts, locations, settings and       *)
(* reviews in the database are of the connection there is                  *)
(* (0001_init.sql: references ... on delete cascade).                      *)
(***************************************************************************)
NothingOutlivesItsConnection ==
    /\ connection = 0 => accounts = {}
    /\ \A r \in Rows : r.connection = connection /\ r.account \in accounts
    /\ \A review \in reviews : review.row \in Rows

(***************************************************************************)
(* A review is stored under an account and location that go together at    *)
(* Google, and with a row of that location, although nothing in the tab    *)
(* keeps the picked location one of the picked account (syncReviews): its  *)
(* reply would otherwise be sent to an address that does not exist.        *)
(***************************************************************************)
StoredUnderItsAccount ==
    \A review \in reviews :
        /\ IsListed(review.account, review.location)
        /\ review.row.location = review.location

(***************************************************************************)
(* A location's settings change by an admin's save or go with the          *)
(* connection.  A synchronisation leaves them alone, however little of the *)
(* location Google lists by then (upsertLocations: an upsert must never    *)
(* silently reset a business owner's safety switch).                       *)
(***************************************************************************)
SettingsChangeBySaving ==
    [][\A r \in Rows :
          \/ connection' # connection
          \/ r \in DOMAIN settings' /\ settings'[r] = settings[r]
          \/ \E p \in Panels : form[p].saving = "put" /\ form[p].target = r
                               /\ form'[p].saving # "put"]_settings

(***************************************************************************)
(* A save changes of a location's settings, as generation and the policy   *)
(* read them, only what its admin has typed into the form since picking    *)
(* the location.  The exception is a form that has been outdated: somebody *)
(* has changed the settings since it was filled in, it was filled in while *)
(* a save was under way, or its last save has failed (SettingsPanel:       *)
(* selectLocation, save).                                                  *)
(***************************************************************************)
UntypedStays ==
    [][\A p \in Panels, r \in Rows, field \in Fields :
          /\ form[p].saving = "put" /\ form[p].target = r
          /\ form'[p].saving # "put"
          /\ form[p].seenAtSave = settings[r]
          /\ resolveLocationConfig(settings'[r])[field]
                # resolveLocationConfig(settings[r])[field]
          => field \in form[p].typedAtSave]_settings
=============================================================================
