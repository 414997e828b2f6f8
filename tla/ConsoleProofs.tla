---------------------------- MODULE ConsoleProofs ----------------------------
(***************************************************************************)
(* Proofs about Console, for any number of tabs, accounts, locations,      *)
(* connections and clicks.                                                 *)
(***************************************************************************)
EXTENDS Console, TLAPS

---------------------------------------------------------------------------
(* What hangs from the connection *)

LEMMA NothingInit == DirectoryInit => NothingOutlivesItsConnection
  BY DEF DirectoryInit, NothingOutlivesItsConnection, Rows, LocationId

LEMMA NothingStep ==
    ASSUME NothingOutlivesItsConnection, [ConsoleNext]_consoleVars
    PROVE  NothingOutlivesItsConnection'
<1> USE DEF NothingOutlivesItsConnection, Rows
<1>1. ASSUME UNCHANGED directory PROVE NothingOutlivesItsConnection'
  BY <1>1 DEF directory
<1>2. CASE saveConnection
  BY <1>2 DEF saveConnection
<1>3. CASE deleteConnection
  BY <1>3 DEF deleteConnection
<1>4. ASSUME NEW id, NEW found, upsertAccounts(id, found)
      PROVE  NothingOutlivesItsConnection'
  BY <1>4 DEF upsertAccounts, keyHolds
<1>5. ASSUME NEW id, NEW a, NEW found, upsertLocations(id, a, found)
      PROVE  NothingOutlivesItsConnection'
  BY <1>5 DEF upsertLocations, findAccountRowId
<1>6. ASSUME NEW r, NEW a, NEW l, insertReview(r, a, l)
      PROVE  NothingOutlivesItsConnection'
  BY <1>6 DEF insertReview
<1>7. ASSUME NEW r, NEW body, upsertBusinessSettings(r, body)
      PROVE  NothingOutlivesItsConnection'
  BY <1>7 DEF upsertBusinessSettings
<1>8. ASSUME NEW t \in Tabs, Click(t) PROVE UNCHANGED directory
  BY <1>8 DEF Click, loadAccounts, loadLocations, pullReviews, disconnect, Start
<1>9. ASSUME NEW t \in Tabs, Serve(t) PROVE NothingOutlivesItsConnection'
  BY <1>1, <1>3, <1>4, <1>5, <1>6, <1>9
  DEF Serve, syncAccounts, SaveAccounts, syncLocations, EnsureAccount, SaveLocations,
      syncReviews, FindLocation, StoreReview, Disconnect, Fails, Resolve
<1>10. ASSUME NEW p \in Panels, PanelStep(p) PROVE NothingOutlivesItsConnection'
  BY <1>1, <1>7, <1>10
  DEF PanelStep, load, selectLocation, Type, save, Put, Answer
<1> QED
  BY <1>1, <1>2, <1>8, <1>9, <1>10 DEF ConsoleNext, Editing, Connecting, consoleVars

(***************************************************************************)
(* Nothing is written for a connection that has gone, or under one that    *)
(* has come instead (0001_init.sql: on delete cascade).                    *)
(***************************************************************************)
THEOREM NothingOutlivesCorrect == ConsoleSpec => []NothingOutlivesItsConnection
  BY NothingInit, NothingStep, PTL DEF ConsoleSpec, ConsoleInit

---------------------------------------------------------------------------
(* Where reviews are stored *)

\* Each tab's request is a record with these fields.
RequestShape ==
    /\ DOMAIN request = Tabs
    /\ \A t \in Tabs :
          DOMAIN request[t] = {"pc", "id", "account", "location", "found"}

\* A pull goes on only with a location that Google lists under the account.
PullsAreListed ==
    \A t \in Tabs : request[t].pc \in {"find", "store"}
        => IsListed(request[t].account, request[t].location)

StoreInv == RequestShape /\ PullsAreListed /\ StoredUnderItsAccount

LEMMA StoreInit == ConsoleInit => StoreInv
  BY DEF ConsoleInit, DirectoryInit, TabInit, NoRequest, StoreInv, RequestShape,
         PullsAreListed, StoredUnderItsAccount

\* A request goes on with another stage, or is over.
LEMMA BecomesKeeps ==
    ASSUME RequestShape, PullsAreListed, NEW t \in Tabs, NEW r, Becomes(t, r),
           DOMAIN r = {"pc", "id", "account", "location", "found"},
           r.pc \in {"find", "store"} => IsListed(r.account, r.location)
    PROVE  RequestShape' /\ PullsAreListed'
  BY DEF Becomes, RequestShape, PullsAreListed, IsListed

LEMMA StoreStep ==
    ASSUME StoreInv, [ConsoleNext]_consoleVars
    PROVE  StoreInv'
<1> USE DEF StoreInv
<1>1. ASSUME UNCHANGED <<request, reviews>> PROVE StoreInv'
  BY <1>1 DEF RequestShape, PullsAreListed, StoredUnderItsAccount, IsListed
<1>2. ASSUME NEW t \in Tabs, Click(t) PROVE StoreInv'
  <2>1. ASSUME NEW pc \in {"accounts", "locations", "reviews", "disconnect"},
               NEW a, NEW l, Start(t, pc, a, l)
        PROVE  StoreInv'
    <3>1. request' = [request EXCEPT ![t].pc = pc, ![t].account = a, ![t].location = l]
          /\ reviews' = reviews
      BY <2>1 DEF Start, directory
    <3>2. RequestShape'
      BY <3>1 DEF RequestShape
    <3>3. request'[t].pc = pc /\ \A u \in Tabs \ {t} : request'[u] = request[u]
      BY <3>1 DEF RequestShape
    <3> QED
      BY <3>1, <3>2, <3>3 DEF PullsAreListed, StoredUnderItsAccount, IsListed
  <2> QED
    BY <1>2, <2>1 DEF Click, loadAccounts, loadLocations, pullReviews, disconnect
<1>3. ASSUME NEW t \in Tabs, Serve(t) PROVE StoreInv'
  <2>1. ASSUME Answered(t) PROVE RequestShape' /\ PullsAreListed'
    <3>1. DOMAIN NoRequest = {"pc", "id", "account", "location", "found"}
          /\ NoRequest.pc = "none"
      BY DEF NoRequest
    <3> QED
      BY <2>1, <3>1, BecomesKeeps DEF Answered
  <2>2. ASSUME NEW pc \in {"accountRows", "accountRow"}, NEW all, Resolve(t, pc, all)
        PROVE  RequestShape' /\ PullsAreListed' /\ reviews' = reviews
    <3>1. PICK found : Becomes(t, [request[t] EXCEPT !.pc = pc, !.id = connection,
                                                     !.found = found])
      BY <2>2 DEF Resolve
    <3> DEFINE r == [request[t] EXCEPT !.pc = pc, !.id = connection, !.found = found]
    <3>2. DOMAIN r = {"pc", "id", "account", "location", "found"} /\ r.pc = pc
      BY DEF RequestShape
    <3> QED
      BY <2>2, <3>1, <3>2, BecomesKeeps DEF Resolve, directory
  <2>3. CASE syncAccounts(t) \/ syncLocations(t)
    <3>1. reviews' = reviews /\ RequestShape' /\ PullsAreListed'
      BY <2>2, <2>3 DEF syncAccounts, syncLocations
    <3> QED
      BY <3>1 DEF StoredUnderItsAccount, IsListed
  <2>4. CASE SaveAccounts(t) \/ SaveLocations(t) \/ Fails(t)
    <3>1. reviews' = reviews
      BY <2>4 DEF SaveAccounts, SaveLocations, Fails, upsertAccounts, upsertLocations,
                  directory
    <3> QED
      BY <2>1, <2>4, <3>1
      DEF SaveAccounts, SaveLocations, Fails, StoredUnderItsAccount, IsListed
  <2>5. CASE EnsureAccount(t)
    <3> DEFINE r == [request[t] EXCEPT !.pc = "locationRows"]
    <3>1. DOMAIN r = {"pc", "id", "account", "location", "found"} /\ r.pc = "locationRows"
      BY DEF RequestShape
    <3>2. Becomes(t, r) /\ reviews' = reviews
      BY <2>5 DEF EnsureAccount, upsertAccounts, directory
    <3> QED
      BY <3>1, <3>2, BecomesKeeps DEF StoredUnderItsAccount, IsListed
  <2>6. CASE syncReviews(t)
    <3> DEFINE r == [request[t] EXCEPT !.pc = "find"]
    <3>1. /\ DOMAIN r = {"pc", "id", "account", "location", "found"}
          /\ r.account = request[t].account /\ r.location = request[t].location
      BY DEF RequestShape
    <3>2. Becomes(t, r) /\ reviews' = reviews
          /\ IsListed(request[t].account, request[t].location)
      BY <2>6 DEF syncReviews, directory
    <3> QED
      BY <3>1, <3>2, BecomesKeeps DEF StoredUnderItsAccount, IsListed
  <2>7. CASE FindLocation(t)
    <3>1. reviews' = reviews
      BY <2>7 DEF FindLocation, directory
    <3>2. ASSUME NEW row,
                 Becomes(t, [request[t] EXCEPT !.pc = "store", !.id = row.connection,
                                               !.found = {row.account}])
          PROVE  RequestShape' /\ PullsAreListed'
      <4> DEFINE r == [request[t] EXCEPT !.pc = "store", !.id = row.connection,
                                         !.found = {row.account}]
      <4>1. /\ DOMAIN r = {"pc", "id", "account", "location", "found"}
            /\ r.account = request[t].account /\ r.location = request[t].location
        BY DEF RequestShape
      <4>2. IsListed(request[t].account, request[t].location)
        BY <2>7 DEF FindLocation, At, PullsAreListed
      <4> QED
        BY <3>2, <4>1, <4>2, BecomesKeeps
    <3> QED
      BY <2>1, <2>7, <3>1, <3>2 DEF FindLocation, StoredUnderItsAccount, IsListed
  <2>8. CASE StoreReview(t)
    <3>1. RequestShape' /\ PullsAreListed'
      BY <2>1, <2>8 DEF StoreReview
    <3>2. IsListed(request[t].account, request[t].location)
      BY <2>8 DEF StoreReview, At, PullsAreListed
    <3>3. PICK a \in request[t].found :
             insertReview([connection |-> request[t].id, account |-> a,
                           location |-> request[t].location],
                          request[t].account, request[t].location)
      BY <2>8 DEF StoreReview
    <3>4. StoredUnderItsAccount'
      BY <3>2, <3>3 DEF insertReview, StoredUnderItsAccount, IsListed
    <3> QED
      BY <3>1, <3>4
  <2>9. CASE Disconnect(t)
    BY <2>1, <2>9 DEF Disconnect, deleteConnection, StoredUnderItsAccount
  <2> QED
    BY <1>3, <2>3, <2>4, <2>5, <2>6, <2>7, <2>8, <2>9 DEF Serve
<1>4. ASSUME NEW p \in Panels, PanelStep(p) PROVE reviews' = reviews
  BY <1>4 DEF PanelStep, load, selectLocation, Type, save, Put, Answer,
              upsertBusinessSettings, directory
<1>5. CASE saveConnection /\ UNCHANGED tabVars
  BY <1>1, <1>5 DEF saveConnection, tabVars
<1> QED
  BY <1>1, <1>2, <1>3, <1>4, <1>5
  DEF ConsoleNext, Editing, Connecting, consoleVars, tabVars, directory

(***************************************************************************)
(* A review is stored only under an account and location that go together  *)
(* at Google, whatever the two pickers show (syncReviews, ingestReview).   *)
(***************************************************************************)
THEOREM StoredUnderCorrect == ConsoleSpec => []StoredUnderItsAccount
<1>1. StoreInv => StoredUnderItsAccount
  BY DEF StoreInv
<1> QED
  BY <1>1, StoreInit, StoreStep, PTL DEF ConsoleSpec

---------------------------------------------------------------------------
(* Settings *)

FormFields ==
    {"stage", "entries", "selected", "fields", "seen", "typed", "saving", "target",
     "body", "seenAtSave", "typedAtSave"}

\* What is on the screen and what is sent are settings.
FormHasSettings(f) ==
    /\ DOMAIN f = FormFields
    /\ f.fields \in Settings /\ f.body \in Settings
    /\ f.seen \in SettingsOrNone /\ f.seenAtSave \in SettingsOrNone
    /\ \A r \in DOMAIN f.entries : f.entries[r] \in SettingsOrNone

\* The fields differ from what they were filled in from only where somebody
\* has typed; and so it was when they were sent.
FormIsTyped(f) ==
    /\ \A field \in Fields \ f.typed : f.fields[field] = toForm(f.seen)[field]
    /\ f.saving = "put" =>
          \A field \in Fields \ f.typedAtSave :
              f.body[field] = toForm(f.seenAtSave)[field]

GoodForm(f) == FormHasSettings(f) /\ FormIsTyped(f)

FormInv ==
    /\ \A r \in Rows : settings[r] \in SettingsOrNone
    /\ DOMAIN form = Panels
    /\ \A p \in Panels : GoodForm(form[p])

\* A form without a row's settings is what a missing row means.
LEMMA FormMeansSettings ==
    /\ \A s \in SettingsOrNone : resolveLocationConfig(s) = toForm(s)
    /\ \A s \in Settings : toForm(s) = s
    /\ EMPTY_FORM \in Settings
    /\ \A s \in SettingsOrNone : toForm(s) \in Settings
<1>1. NoSettings \notin Settings
  BY DirectoryAssumption DEF Settings
<1>2. EMPTY_FORM \in Settings
  BY DEF EMPTY_FORM, Settings
<1> QED
  BY <1>1, <1>2 DEF resolveLocationConfig, toForm, EMPTY_FORM, SettingsOrNone

LEMMA FilledIsGood ==
    ASSUME NEW f, GoodForm(f), NEW entries, NEW r \in DOMAIN entries,
           \A q \in DOMAIN entries : entries[q] \in SettingsOrNone
    PROVE  GoodForm(Filled(f, r, entries))
<1> DEFINE g == Filled(f, r, entries)
<1>1. DOMAIN g = FormFields
  BY DEF Filled, GoodForm, FormHasSettings, FormFields
<1>2. /\ g.fields = toForm(entries[r]) /\ g.seen = entries[r] /\ g.typed = {}
      /\ g.entries = entries
  BY DEF Filled
<1>3. /\ g.body = f.body /\ g.seenAtSave = f.seenAtSave /\ g.saving = f.saving
      /\ g.typedAtSave = f.typedAtSave
  BY DEF Filled, GoodForm, FormHasSettings, FormFields
<1> QED
  BY <1>1, <1>2, <1>3, FormMeansSettings DEF GoodForm, FormHasSettings, FormIsTyped

LEMMA FormInit == ConsoleInit => FormInv
<1> SUFFICES ASSUME ConsoleInit PROVE FormInv
  OBVIOUS
<1>1. \A r \in Rows : settings[r] \in SettingsOrNone
  BY DEF ConsoleInit, DirectoryInit, Rows, SettingsOrNone
<1>2. /\ DOMAIN NewPanel = FormFields
      /\ NewPanel.fields = EMPTY_FORM /\ NewPanel.body = EMPTY_FORM
      /\ NewPanel.seen = NoSettings /\ NewPanel.seenAtSave = NoSettings
      /\ NewPanel.entries = <<>> /\ NewPanel.saving = "no"
  BY DEF NewPanel, FormFields
<1>3. GoodForm(NewPanel)
  BY <1>2, FormMeansSettings
  DEF GoodForm, FormHasSettings, FormIsTyped, SettingsOrNone, toForm
<1> QED
  BY <1>1, <1>3 DEF ConsoleInit, SettingsInit, FormInv

\* A panel's form goes on to another good one.
LEMMA FormBecomes ==
    ASSUME FormInv, NEW p \in Panels, NEW f, GoodForm(f),
           form' = [form EXCEPT ![p] = f], UNCHANGED settings
    PROVE  FormInv'
  BY DEF FormInv, Rows, GoodForm, FormHasSettings, FormIsTyped

LEMMA PanelKeeps ==
    ASSUME FormInv, NEW p \in Panels, PanelStep(p)
    PROVE  FormInv'
<1>0. GoodForm(form[p]) /\ \A r \in Rows : settings[r] \in SettingsOrNone
  BY DEF FormInv
<1>1. CASE load(p)
  <2>1. \A r \in DOMAIN listSettings : listSettings[r] \in SettingsOrNone
    BY <1>0 DEF listSettings, listLocationRows, getBusinessSettings
  <2>2. UNCHANGED settings
    BY <1>1 DEF load, directory
  <2>3. ASSUME NEW stage, form' = [form EXCEPT ![p].stage = stage] PROVE FormInv'
    <3> DEFINE f == [form[p] EXCEPT !.stage = stage]
    <3>1. GoodForm(f)
      BY <1>0 DEF GoodForm, FormHasSettings, FormIsTyped, FormFields
    <3>2. form' = [form EXCEPT ![p] = f]
      BY <2>3
    <3> QED
      BY <2>2, <3>1, <3>2, FormBecomes
  <2>4. ASSUME NEW first \in DOMAIN listSettings,
               form' = [form EXCEPT ![p] = Filled(@, first, listSettings)]
        PROVE  FormInv'
    <3>1. form' = [form EXCEPT ![p] = Filled(form[p], first, listSettings)]
      BY <2>4
    <3>2. GoodForm(Filled(form[p], first, listSettings))
      BY <1>0, <2>1, FilledIsGood
    <3> QED
      BY <2>2, <3>1, <3>2, FormBecomes
  <2> QED
    BY <1>1, <2>3, <2>4 DEF load
<1>2. ASSUME NEW r \in LocationIds, selectLocation(p, r) PROVE FormInv'
  <2>1. /\ r \in DOMAIN form[p].entries
        /\ form' = [form EXCEPT ![p] = Filled(form[p], r, form[p].entries)]
        /\ UNCHANGED settings
    BY <1>2 DEF selectLocation, directory
  <2>2. GoodForm(Filled(form[p], r, form[p].entries))
    BY <1>0, <2>1, FilledIsGood DEF GoodForm, FormHasSettings
  <2> QED
    BY <2>1, <2>2, FormBecomes
<1>3. CASE Type(p)
  <2>1. PICK entered \in Settings, field \in Fields :
            /\ \A other \in Fields \ {field} : entered[other] = form[p].fields[other]
            /\ form' = [form EXCEPT ![p].fields = entered, ![p].typed = @ \cup {field}]
    BY <1>3 DEF Type
  <2> DEFINE f == [form[p] EXCEPT !.fields = entered, !.typed = @ \cup {field}]
  <2>2. form' = [form EXCEPT ![p] = f] /\ UNCHANGED settings
    BY <1>3, <2>1 DEF Type, directory
  <2>3. GoodForm(f)
    BY <1>0, <2>1 DEF GoodForm, FormHasSettings, FormIsTyped, FormFields
  <2> QED
    BY <2>2, <2>3, FormBecomes
<1>4. CASE save(p)
  <2> DEFINE f == [form[p] EXCEPT !.saving = "put", !.target = form[p].selected,
                                  !.body = form[p].fields, !.seen = form[p].fields,
                                  !.seenAtSave = form[p].seen,
                                  !.typedAtSave = form[p].typed]
  <2>1. form' = [form EXCEPT ![p] = f] /\ UNCHANGED settings
    BY <1>4 DEF save, directory
  <2>2. /\ DOMAIN f = FormFields
        /\ f.fields = form[p].fields /\ f.body = form[p].fields
        /\ f.seen = form[p].fields /\ f.seenAtSave = form[p].seen
        /\ f.typed = form[p].typed /\ f.typedAtSave = form[p].typed
        /\ f.entries = form[p].entries
    BY <1>0 DEF GoodForm, FormHasSettings, FormFields
  <2>3. GoodForm(f)
    BY <1>0, <2>2, FormMeansSettings
    DEF GoodForm, FormHasSettings, FormIsTyped, SettingsOrNone
  <2> QED
    BY <2>1, <2>3, FormBecomes
<1>5. CASE Put(p)
  <2>1. PICK saving \in {"answer", "error"} : form' = [form EXCEPT ![p].saving = saving]
    BY <1>5 DEF Put
  <2> DEFINE f == [form[p] EXCEPT !.saving = saving]
  <2>2. GoodForm(f)
    BY <1>0, <2>1 DEF GoodForm, FormHasSettings, FormIsTyped, FormFields
  <2>3. form' = [form EXCEPT ![p] = f]
    BY <2>1
  <2>4. DOMAIN form' = Panels /\ \A q \in Panels : GoodForm(form'[q])
    BY <2>2, <2>3 DEF FormInv
  <2>5. \A r \in Rows' : settings'[r] \in SettingsOrNone
    BY <1>0, <1>5
    DEF Put, upsertBusinessSettings, Rows, directory, GoodForm, FormHasSettings,
        SettingsOrNone
  <2> QED
    BY <2>4, <2>5 DEF FormInv, GoodForm, FormHasSettings, FormIsTyped
<1>6. CASE Answer(p)
  <2> DEFINE saved == IF form[p].saving = "error" THEN form[p].entries
                      ELSE [form[p].entries EXCEPT ![form[p].target] = form[p].body]
             f == Saved(form[p], saved)
  <2>1. form' = [form EXCEPT ![p] = f] /\ UNCHANGED settings
    BY <1>6 DEF Answer, directory
  <2>2. \A r \in DOMAIN saved : saved[r] \in SettingsOrNone
    BY <1>0 DEF GoodForm, FormHasSettings, SettingsOrNone
  <2>3. /\ DOMAIN f = FormFields
        /\ f.saving = "no" /\ f.body = EMPTY_FORM /\ f.seenAtSave = NoSettings
        /\ f.entries = saved /\ f.fields = form[p].fields
        /\ f.seen = form[p].seen /\ f.typed = form[p].typed
    <3> HIDE DEF saved
    <3> QED
      BY <1>0 DEF GoodForm, FormHasSettings, FormFields, Saved
  <2>4. GoodForm(f)
    <3> HIDE DEF f, saved
    <3> QED
      BY <1>0, <2>2, <2>3, FormMeansSettings
      DEF GoodForm, FormHasSettings, FormIsTyped, SettingsOrNone
  <2> QED
    BY <2>1, <2>4, FormBecomes
<1> QED
  BY <1>1, <1>2, <1>3, <1>4, <1>5, <1>6 DEF PanelStep

\* What a step outside the Settings tabs does to the settings there are.
LEMMA ConnectingKeeps ==
    ASSUME NothingOutlivesItsConnection, (Connecting \/ saveConnection)
    PROVE  /\ \A r \in Rows' : \/ settings'[r] = NoSettings
                               \/ r \in Rows /\ settings'[r] = settings[r]
           /\ \A r \in Rows : \/ connection' # connection
                              \/ r \in Rows' /\ settings'[r] = settings[r]
<1> DEFINE Kept ==
        /\ \A r \in Rows' :
              \/ settings'[r] = NoSettings
              \/ r \in Rows /\ settings'[r] = settings[r]
        /\ \A r \in Rows :
              \/ connection' # connection
              \/ r \in Rows' /\ settings'[r] = settings[r]
<1>1. ASSUME UNCHANGED <<connection, settings>> PROVE Kept
  BY <1>1 DEF Rows
<1>2. CASE deleteConnection
  BY <1>2 DEF deleteConnection, Rows, NothingOutlivesItsConnection
<1>3. ASSUME NEW id, NEW a, NEW found, upsertLocations(id, a, found) PROVE Kept
  BY <1>3 DEF upsertLocations, Rows
<1>4. ASSUME NEW id, NEW found, upsertAccounts(id, found) PROVE Kept
  BY <1>1, <1>4 DEF upsertAccounts
<1>5. ASSUME NEW r, NEW a, NEW l, insertReview(r, a, l) PROVE Kept
  BY <1>1, <1>5 DEF insertReview
<1>6. ASSUME UNCHANGED directory PROVE Kept
  BY <1>1, <1>6 DEF directory
<1>7. ASSUME NEW t \in Tabs, Click(t) PROVE Kept
  BY <1>6, <1>7 DEF Click, loadAccounts, loadLocations, pullReviews, disconnect, Start
<1>8. ASSUME NEW t \in Tabs, Serve(t) PROVE Kept
  BY <1>2, <1>3, <1>4, <1>5, <1>6, <1>8
  DEF Serve, syncAccounts, SaveAccounts, syncLocations, EnsureAccount, SaveLocations,
      syncReviews, FindLocation, StoreReview, Disconnect, Fails, Resolve
<1>9. CASE saveConnection
  BY <1>9 DEF saveConnection, NothingOutlivesItsConnection, Rows
<1> QED
  BY <1>7, <1>8, <1>9 DEF Connecting

LEMMA FormStep ==
    ASSUME NothingOutlivesItsConnection, FormInv, [ConsoleNext]_consoleVars
    PROVE  FormInv'
<1>1. CASE UNCHANGED <<form, settings>>
  BY <1>1 DEF FormInv, Rows, GoodForm, FormHasSettings, FormIsTyped
<1>2. CASE (Connecting \/ saveConnection) /\ UNCHANGED settingsVars
  <2>1. \A r \in Rows' : settings'[r] \in SettingsOrNone
    BY <1>2, ConnectingKeeps DEF FormInv, SettingsOrNone
  <2>2. form' = form
    BY <1>2 DEF settingsVars
  <2> QED
    BY <2>1, <2>2 DEF FormInv, GoodForm, FormHasSettings, FormIsTyped
<1> QED
  BY <1>1, <1>2, PanelKeeps DEF ConsoleNext, Editing, consoleVars, directory, settingsVars

(***************************************************************************)
(* A location's settings change by an admin's save, or go with the         *)
(* connection; synchronising leaves them alone (upsertLocations).          *)
(***************************************************************************)
THEOREM SettingsChangeCorrect == ConsoleSpec => SettingsChangeBySaving
<1> DEFINE BySaving ==
        \A r \in Rows :
            \/ connection' # connection
            \/ r \in DOMAIN settings' /\ settings'[r] = settings[r]
            \/ \E p \in Panels : form[p].saving = "put" /\ form[p].target = r
                                 /\ form'[p].saving # "put"
<1>1. ASSUME NothingOutlivesItsConnection, FormInv, [ConsoleNext]_consoleVars
      PROVE  [BySaving]_settings
  <2>1. ASSUME NEW p \in Panels, Put(p) PROVE BySaving \/ settings' = settings
    <3>1. CASE UNCHANGED directory
      BY <3>1 DEF directory
    <3>2. CASE /\ upsertBusinessSettings(form[p].target, form[p].body)
               /\ \E answer \in {"answer", "error"} :
                     form' = [form EXCEPT ![p].saving = answer]
      <4>1. form[p].saving = "put"
        BY <2>1 DEF Put
      <4>2. form'[p].saving # "put"
        BY <1>1, <3>2 DEF FormInv, GoodForm, FormHasSettings, FormFields
      <4>3. settings' = [settings EXCEPT ![form[p].target] = form[p].body]
        BY <3>2 DEF upsertBusinessSettings
      <4> QED
        BY <4>1, <4>2, <4>3 DEF Rows
    <3> QED
      BY <2>1, <3>1, <3>2 DEF Put
  <2>2. ASSUME NEW p \in Panels, PanelStep(p) PROVE BySaving \/ settings' = settings
    BY <2>1, <2>2 DEF PanelStep, load, selectLocation, Type, save, Answer, directory
  <2>3. CASE Connecting \/ saveConnection
    BY <1>1, <2>3, ConnectingKeeps DEF Rows
  <2> QED
    BY <1>1, <2>2, <2>3 DEF ConsoleNext, Editing, consoleVars, directory
<1> QED
  BY <1>1, NothingInit, NothingStep, FormInit, FormStep, PTL
  DEF ConsoleSpec, ConsoleInit, SettingsChangeBySaving

(***************************************************************************)
(* A save changes of a location's settings only what its admin has typed,  *)
(* unless the form was outdated when it was sent (selectLocation, save).   *)
(***************************************************************************)
THEOREM UntypedCorrect == ConsoleSpec => UntypedStays
<1> DEFINE Untyped ==
        \A p \in Panels, r \in Rows, field \in Fields :
            /\ form[p].saving = "put" /\ form[p].target = r
            /\ form'[p].saving # "put"
            /\ form[p].seenAtSave = settings[r]
            /\ resolveLocationConfig(settings'[r])[field]
                  # resolveLocationConfig(settings[r])[field]
            => field \in form[p].typedAtSave
<1>1. ASSUME NothingOutlivesItsConnection, FormInv, [ConsoleNext]_consoleVars
      PROVE  [Untyped]_settings
  <2> SUFFICES ASSUME settings' # settings,
                      NEW p \in Panels, NEW r \in Rows, NEW field \in Fields,
                      form[p].saving = "put", form[p].target = r,
                      form'[p].saving # "put",
                      form[p].seenAtSave = settings[r],
                      resolveLocationConfig(settings'[r])[field]
                         # resolveLocationConfig(settings[r])[field]
               PROVE  field \in form[p].typedAtSave
    BY DEF FormInv
  <2>1. form' # form
    OBVIOUS
  <2>2. PICK q \in Panels : PanelStep(q)
    BY <1>1, <2>1 DEF ConsoleNext, Editing, consoleVars, settingsVars
  <2>3. Put(q)
    BY <2>2 DEF PanelStep, load, selectLocation, Type, save, Answer, directory
  <2>4. upsertBusinessSettings(form[q].target, form[q].body)
        /\ \E answer \in {"answer", "error"} : form' = [form EXCEPT ![q].saving = answer]
    BY <2>3 DEF Put, directory
  <2>5. q = p
    BY <1>1, <2>4 DEF FormInv
  <2>6. settings'[r] = form[p].body
    BY <2>4, <2>5 DEF upsertBusinessSettings, Rows
  <2>7. GoodForm(form[p])
    BY <1>1 DEF FormInv
  <2>8. resolveLocationConfig(settings'[r]) = form[p].body
    BY <2>6, <2>7, FormMeansSettings DEF GoodForm, FormHasSettings, SettingsOrNone
  <2>9. resolveLocationConfig(settings[r]) = toForm(form[p].seenAtSave)
    BY <1>1, FormMeansSettings DEF FormInv
  <2> QED
    BY <2>7, <2>8, <2>9 DEF GoodForm, FormIsTyped
<1> QED
  BY <1>1, NothingInit, NothingStep, FormInit, FormStep, PTL
  DEF ConsoleSpec, ConsoleInit, UntypedStays

---------------------------------------------------------------------------
(* Types *)

\* A request has what its next stage is going to use.
RequestTyped(r) ==
    /\ r.pc \in {"locations", "accountRow", "locationRows", "reviews", "find", "store"}
          => r.account \in Accounts
    /\ r.pc \in {"accountRows", "accountRow", "locationRows", "store"}
          => r.id \in ConnectionIds
    /\ r.pc \in {"accountRows", "store"} => r.found \subseteq Accounts
    /\ r.pc \in {"accountRow", "locationRows"} => r.found \subseteq GoogleLocations
    /\ r.pc \in {"reviews", "find", "store"} => r.location \in GoogleLocations

RequestsTyped ==
    /\ request \in [Tabs -> RequestRecords]
    /\ \A t \in Tabs : RequestTyped(request[t])
    /\ clicks \in 0..MaxClicks

\* Beside what FormHasSettings says.
FormTyped(f) ==
    /\ f.stage \in {"list", "ready", "failed"}
    /\ DOMAIN f.entries \subseteq LocationIds
    /\ f.selected \in DOMAIN f.entries \cup {NoLocation}
    /\ f.typed \subseteq Fields /\ f.typedAtSave \subseteq Fields
    /\ f.saving \in {"no", "put", "answer", "error"}
    /\ f.target \in LocationIds \cup {NoLocation}
    /\ f.saving = "no" <=> f.target = NoLocation

FormsTyped == edits \in 0..MaxEdits /\ \A p \in Panels : FormTyped(form[p])

ConsoleInv ==
    NothingOutlivesItsConnection /\ FormInv /\ DirectoryTypeOK /\ RequestsTyped /\ FormsTyped

\* What is not of the entries is a record like any other.
LEMMA TypedFormIsRecord ==
    ASSUME NEW f, FormHasSettings(f), FormTyped(f)
    PROVE  [x \in DOMAIN f \ {"entries"} |-> f[x]] \in FormRecords
<1> DEFINE g == [x \in DOMAIN f \ {"entries"} |-> f[x]]
<1>1. DOMAIN g = {"stage", "selected", "fields", "seen", "typed", "saving", "target",
                  "body", "seenAtSave", "typedAtSave"}
  BY DEF FormHasSettings, FormFields
<1>2. /\ g.stage = f.stage /\ g.selected = f.selected /\ g.fields = f.fields
      /\ g.seen = f.seen /\ g.typed = f.typed /\ g.saving = f.saving
      /\ g.target = f.target /\ g.body = f.body /\ g.seenAtSave = f.seenAtSave
      /\ g.typedAtSave = f.typedAtSave
  BY <1>1
<1>3. g \in FormRecords <=>
        /\ g.stage \in {"list", "ready", "failed"}
        /\ g.selected \in LocationIds \cup {NoLocation} /\ g.fields \in Settings
        /\ g.seen \in SettingsOrNone /\ g.typed \in SUBSET Fields
        /\ g.saving \in {"no", "put", "answer", "error"}
        /\ g.target \in LocationIds \cup {NoLocation} /\ g.body \in Settings
        /\ g.seenAtSave \in SettingsOrNone /\ g.typedAtSave \in SUBSET Fields
  BY <1>1 DEF FormRecords
<1>4. g \in FormRecords
  <2> HIDE DEF g
  <2> QED
    BY <1>2, <1>3 DEF FormHasSettings, FormTyped
<1> QED
  BY <1>4

LEMMA ConsoleInvTypes == ConsoleInv => ConsoleTypeOK
<1> SUFFICES ASSUME ConsoleInv PROVE ConsoleTypeOK
  OBVIOUS
<1>1. SettingsTypeOK
  BY TypedFormIsRecord
  DEF ConsoleInv, SettingsTypeOK, FormsTyped, FormTyped, FormInv, GoodForm,
      FormHasSettings
<1>2. TabTypeOK
  BY DEF ConsoleInv, TabTypeOK, RequestsTyped
<1> QED
  BY <1>1, <1>2 DEF ConsoleInv, ConsoleTypeOK

LEMMA ConsoleTypesInit == ConsoleInit => ConsoleInv
<1> SUFFICES ASSUME ConsoleInit PROVE ConsoleInv
  OBVIOUS
<1>1. NothingOutlivesItsConnection /\ FormInv
  BY NothingInit, FormInit DEF ConsoleInit
<1>2. DirectoryTypeOK
  BY DirectoryAssumption
  DEF ConsoleInit, DirectoryInit, DirectoryTypeOK, ConnectionIds, Rows, LocationId,
      LocationIds, SettingsOrNone
<1>3. RequestsTyped
  <2>1. NoRequest \in RequestRecords /\ NoRequest.pc = "none"
    BY DEF NoRequest, RequestRecords
  <2> QED
    BY <2>1, ClicksAssumption DEF ConsoleInit, TabInit, RequestsTyped, RequestTyped
<1>4. FormsTyped
  <2>1. FormTyped(NewPanel)
    BY DEF FormTyped, NewPanel, Fields
  <2> QED
    BY <2>1, EditsAssumption DEF ConsoleInit, SettingsInit, FormsTyped
<1> QED
  BY <1>1, <1>2, <1>3, <1>4 DEF ConsoleInv

---------------------------------------------------------------------------
(* The statements keep the tables' types *)

LEMMA StatementsTyped ==
    ASSUME DirectoryTypeOK,
           \/ UNCHANGED directory
           \/ saveConnection
           \/ deleteConnection
           \/ \E id \in ConnectionIds, found \in SUBSET Accounts : upsertAccounts(id, found)
           \/ \E id \in ConnectionIds, a \in Accounts, found \in SUBSET GoogleLocations :
                 upsertLocations(id, a, found)
           \/ \E r : \E a \in Accounts, l \in GoogleLocations : insertReview(r, a, l)
           \/ \E r : \E body \in Settings : upsertBusinessSettings(r, body)
    PROVE  DirectoryTypeOK'
<1> USE DEF DirectoryTypeOK, Rows
<1>1. CASE UNCHANGED directory
  BY <1>1 DEF directory
<1>2. CASE saveConnection
  BY <1>2, DirectoryAssumption DEF saveConnection, ConnectionIds
<1>3. CASE deleteConnection
  BY <1>3 DEF deleteConnection
<1>4. ASSUME NEW id \in ConnectionIds, NEW found \in SUBSET Accounts,
             upsertAccounts(id, found)
      PROVE  DirectoryTypeOK'
  BY <1>4 DEF upsertAccounts
<1>5. ASSUME NEW id \in ConnectionIds, NEW a \in Accounts,
             NEW found \in SUBSET GoogleLocations, upsertLocations(id, a, found)
      PROVE  DirectoryTypeOK'
  <2> DEFINE new == {[connection |-> id, account |-> a, location |-> l] : l \in found}
  <2>1. new \subseteq LocationIds
    BY DEF LocationIds
  <2>2. /\ settings' = [r \in Rows \cup new |-> IF r \in Rows THEN settings[r]
                                                              ELSE NoSettings]
        /\ UNCHANGED <<connection, connections, accounts, reviews>>
    BY <1>5 DEF upsertLocations
  <2> HIDE DEF new
  <2> QED
    BY <2>1, <2>2 DEF SettingsOrNone
<1>6. ASSUME NEW r, NEW a \in Accounts, NEW l \in GoogleLocations, insertReview(r, a, l)
      PROVE  DirectoryTypeOK'
  BY <1>6 DEF insertReview, ReviewRecords
<1>7. ASSUME NEW r, NEW body \in Settings, upsertBusinessSettings(r, body)
      PROVE  DirectoryTypeOK'
  BY <1>7 DEF upsertBusinessSettings, SettingsOrNone
<1> QED
  BY <1>1, <1>2, <1>3, <1>4, <1>5, <1>6, <1>7


---------------------------------------------------------------------------
(* The Connection tabs keep types *)

LEMMA RequestBecomesTyped ==
    ASSUME RequestsTyped, NEW t \in Tabs, NEW r \in RequestRecords, RequestTyped(r),
           Becomes(t, r)
    PROVE  RequestsTyped'
  BY DEF RequestsTyped, RequestTyped, Becomes, ConnectionIds

LEMMA AnsweredTyped ==
    ASSUME RequestsTyped, NEW t \in Tabs, Answered(t)
    PROVE  RequestsTyped'
<1>1. NoRequest \in RequestRecords /\ RequestTyped(NoRequest)
  BY DEF NoRequest, RequestRecords, RequestTyped
<1> QED
  BY <1>1, RequestBecomesTyped DEF Answered

LEMMA StartTyped ==
    ASSUME RequestsTyped, NEW t \in Tabs, Click(t)
    PROVE  RequestsTyped'
<1>1. ASSUME NEW pc \in {"accounts", "locations", "reviews", "disconnect"},
             NEW a \in Accounts \cup {NoAccount}, NEW l \in GoogleLocations \cup {NoPlace},
             pc \in {"locations", "reviews"} => a \in Accounts,
             pc = "reviews" => l \in GoogleLocations,
             Start(t, pc, a, l)
      PROVE  RequestsTyped'
  <2> DEFINE r == [request[t] EXCEPT !.pc = pc, !.account = a, !.location = l]
  <2>1. r \in RequestRecords /\ r.pc = pc /\ r.account = a /\ r.location = l
    BY DEF RequestsTyped, RequestRecords
  <2>2. RequestTyped(r)
    BY <1>1, <2>1 DEF RequestTyped
  <2>3. request' = [request EXCEPT ![t] = r]
    BY <1>1 DEF Start
  <2>4. clicks' \in 0..MaxClicks
    BY <1>1, ClicksAssumption DEF Start, RequestsTyped
  <2> HIDE DEF r
  <2> QED
    BY <2>1, <2>2, <2>3, <2>4 DEF RequestsTyped, RequestTyped, ConnectionIds
<1> QED
  BY <1>1 DEF Click, loadAccounts, loadLocations, pullReviews, disconnect

LEMMA ResolveTyped ==
    ASSUME RequestsTyped, DirectoryTypeOK, NEW t \in Tabs,
           NEW pc \in {"accountRows", "accountRow"}, NEW all,
           pc = "accountRows" => all \subseteq Accounts,
           pc = "accountRow" => all \subseteq GoogleLocations
                                  /\ request[t].account \in Accounts,
           Resolve(t, pc, all)
    PROVE  RequestsTyped'
<1>1. PICK found \in Listed(all) :
         Becomes(t, [request[t] EXCEPT !.pc = pc, !.id = connection, !.found = found])
  BY DEF Resolve
<1> DEFINE r == [request[t] EXCEPT !.pc = pc, !.id = connection, !.found = found]
<1>2. found \subseteq all
  BY DEF Listed
<1>3. connection \in ConnectionIds
  BY DEF Resolve, DirectoryTypeOK
<1>4. /\ r \in RequestRecords
      /\ r.pc = pc /\ r.id = connection /\ r.found = found
      /\ r.account = request[t].account
  BY <1>2, <1>3 DEF RequestsTyped, RequestRecords
<1>5. RequestTyped(r)
  BY <1>2, <1>3, <1>4 DEF RequestTyped
<1> HIDE DEF r
<1> QED
  BY <1>1, <1>4, <1>5, RequestBecomesTyped DEF r

LEMMA ServeTyped ==
    ASSUME DirectoryTypeOK, RequestsTyped, NEW t \in Tabs, Serve(t)
    PROVE  RequestsTyped' /\ DirectoryTypeOK'
<1>0. request[t] \in RequestRecords /\ RequestTyped(request[t])
  BY DEF RequestsTyped
<1>1. ASSUME UNCHANGED directory PROVE DirectoryTypeOK'
  BY <1>1, StatementsTyped
<1>2. CASE syncAccounts(t)
  BY <1>1, <1>2, ResolveTyped DEF syncAccounts, Resolve
<1>3. CASE SaveAccounts(t)
  <2>1. request[t].id \in ConnectionIds /\ request[t].found \subseteq Accounts
    BY <1>0, <1>3 DEF SaveAccounts, At, RequestTyped
  <2> QED
    BY <1>3, <2>1, AnsweredTyped, StatementsTyped DEF SaveAccounts
<1>4. CASE syncLocations(t)
  <2>1. request[t].account \in Accounts
    BY <1>0, <1>4 DEF syncLocations, At, RequestTyped
  <2>2. Listing[request[t].account] \subseteq GoogleLocations
    BY <2>1, DirectoryAssumption
  <2> QED
    BY <1>1, <1>4, <2>1, <2>2, ResolveTyped DEF syncLocations, Resolve
<1>5. CASE EnsureAccount(t)
  <2> DEFINE r == [request[t] EXCEPT !.pc = "locationRows"]
  <2>1. request[t].id \in ConnectionIds /\ request[t].account \in Accounts
        /\ request[t].found \subseteq GoogleLocations
    BY <1>0, <1>5 DEF EnsureAccount, At, RequestTyped
  <2>2. r \in RequestRecords /\ RequestTyped(r)
    BY <1>0, <2>1 DEF RequestRecords, RequestTyped
  <2>3. DirectoryTypeOK'
    BY <1>1, <1>5, <2>1, StatementsTyped DEF EnsureAccount
  <2> QED
    BY <1>5, <2>2, <2>3, RequestBecomesTyped DEF EnsureAccount
<1>6. CASE SaveLocations(t)
  <2>1. request[t].id \in ConnectionIds /\ request[t].account \in Accounts
        /\ request[t].found \subseteq GoogleLocations
    BY <1>0, <1>6 DEF SaveLocations, At, RequestTyped
  <2> QED
    BY <1>6, <2>1, AnsweredTyped, StatementsTyped DEF SaveLocations
<1>7. CASE syncReviews(t)
  <2> DEFINE r == [request[t] EXCEPT !.pc = "find"]
  <2>1. request[t].account \in Accounts /\ request[t].location \in GoogleLocations
    BY <1>0, <1>7 DEF syncReviews, At, RequestTyped
  <2>2. r \in RequestRecords /\ RequestTyped(r)
    BY <1>0, <2>1 DEF RequestRecords, RequestTyped
  <2> QED
    BY <1>1, <1>7, <2>2, RequestBecomesTyped DEF syncReviews
<1>8. CASE FindLocation(t)
  <2>1. request[t].account \in Accounts /\ request[t].location \in GoogleLocations
    BY <1>0, <1>8 DEF FindLocation, At, RequestTyped
  <2>2. ASSUME NEW row \in Rows,
               Becomes(t, [request[t] EXCEPT !.pc = "store", !.id = row.connection,
                                             !.found = {row.account}])
        PROVE  RequestsTyped'
    <3> DEFINE r == [request[t] EXCEPT !.pc = "store", !.id = row.connection,
                                       !.found = {row.account}]
    <3>1. row.connection \in ConnectionIds /\ row.account \in Accounts
      BY <2>2 DEF DirectoryTypeOK, LocationIds
    <3>2. r \in RequestRecords /\ RequestTyped(r)
      BY <1>0, <2>1, <3>1 DEF RequestRecords, RequestTyped
    <3> QED
      BY <2>2, <3>2, RequestBecomesTyped
  <2> QED
    BY <1>1, <1>8, <2>2, AnsweredTyped DEF FindLocation, locationRows
<1>9. CASE StoreReview(t)
  <2>1. request[t].account \in Accounts /\ request[t].location \in GoogleLocations
    BY <1>0, <1>9 DEF StoreReview, At, RequestTyped
  <2>2. \E r : insertReview(r, request[t].account, request[t].location)
    BY <1>9 DEF StoreReview
  <2>3. DirectoryTypeOK'
    BY <2>1, <2>2, StatementsTyped
  <2> QED
    BY <1>9, <2>3, AnsweredTyped DEF StoreReview
<1>10. CASE Disconnect(t)
  BY <1>10, AnsweredTyped, StatementsTyped DEF Disconnect
<1>11. CASE Fails(t)
  BY <1>1, <1>11, AnsweredTyped DEF Fails
<1> QED
  BY <1>2, <1>3, <1>4, <1>5, <1>6, <1>7, <1>8, <1>9, <1>10, <1>11 DEF Serve


---------------------------------------------------------------------------
(* The Settings tabs keep types *)

\* A panel's form goes on to another typed one.
LEMMA FormBecomesTyped ==
    ASSUME FormInv, FormsTyped, NEW p \in Panels, NEW f, FormTyped(f),
           form' = [form EXCEPT ![p] = f], edits' \in 0..MaxEdits
    PROVE  FormsTyped'
  BY DEF FormInv, FormsTyped, FormTyped, LocationIds, ConnectionIds, NoLocation, Fields

LEMMA FilledTyped ==
    ASSUME NEW f, FormHasSettings(f), FormTyped(f), NEW entries, NEW r \in DOMAIN entries,
           DOMAIN entries \subseteq LocationIds
    PROVE  FormTyped(Filled(f, r, entries))
<1> DEFINE g == Filled(f, r, entries)
<1>1. /\ g.stage = "ready" /\ g.entries = entries /\ g.selected = r /\ g.typed = {}
      /\ g.typedAtSave = f.typedAtSave /\ g.saving = f.saving /\ g.target = f.target
  BY DEF Filled, FormHasSettings, FormFields
<1> HIDE DEF g
<1>2. FormTyped(g)
  BY <1>1 DEF FormTyped
<1> QED
  BY <1>2 DEF g

LEMMA PanelTyped ==
    ASSUME FormInv, FormsTyped, DirectoryTypeOK, NEW p \in Panels, PanelStep(p)
    PROVE  FormsTyped' /\ DirectoryTypeOK'
<1>0. FormHasSettings(form[p]) /\ FormTyped(form[p]) /\ edits \in 0..MaxEdits
  BY DEF FormInv, GoodForm, FormsTyped
<1>1. ASSUME UNCHANGED directory PROVE DirectoryTypeOK'
  BY <1>1, StatementsTyped
<1>2. CASE load(p)
  <2>1. DOMAIN listSettings \subseteq LocationIds
    BY DEF listSettings, listLocationRows, DirectoryTypeOK
  <2>2. edits' = edits /\ DirectoryTypeOK'
    BY <1>1, <1>2 DEF load
  <2>3. ASSUME NEW stage \in {"ready", "failed"},
               form' = [form EXCEPT ![p].stage = stage] PROVE FormsTyped'
    <3> DEFINE f == [form[p] EXCEPT !.stage = stage]
    <3>1. /\ f.stage = stage /\ f.entries = form[p].entries
          /\ f.selected = form[p].selected /\ f.typed = form[p].typed
          /\ f.typedAtSave = form[p].typedAtSave /\ f.saving = form[p].saving
          /\ f.target = form[p].target
      BY <1>0 DEF FormHasSettings, FormFields
    <3>2. form' = [form EXCEPT ![p] = f]
      BY <2>3
    <3> HIDE DEF f
    <3>3. FormTyped(f)
      BY <1>0, <3>1 DEF FormTyped
    <3> QED
      BY <1>0, <2>2, <3>2, <3>3, FormBecomesTyped
  <2>4. ASSUME NEW first \in DOMAIN listSettings,
               form' = [form EXCEPT ![p] = Filled(@, first, listSettings)]
        PROVE  FormsTyped'
    <3>1. form' = [form EXCEPT ![p] = Filled(form[p], first, listSettings)]
      BY <2>4
    <3>2. FormTyped(Filled(form[p], first, listSettings))
      BY <1>0, <2>1, FilledTyped
    <3> QED
      BY <1>0, <2>2, <3>1, <3>2, FormBecomesTyped
  <2> QED
    BY <1>2, <2>2, <2>3, <2>4 DEF load
<1>3. ASSUME NEW r \in LocationIds, selectLocation(p, r)
      PROVE  FormsTyped' /\ DirectoryTypeOK'
  <2>1. /\ r \in DOMAIN form[p].entries
        /\ form' = [form EXCEPT ![p] = Filled(form[p], r, form[p].entries)]
        /\ edits' = edits
    BY <1>3 DEF selectLocation
  <2>2. FormTyped(Filled(form[p], r, form[p].entries))
    BY <1>0, <2>1, FilledTyped DEF FormTyped
  <2> QED
    BY <1>0, <1>1, <1>3, <2>1, <2>2, FormBecomesTyped DEF selectLocation
<1>4. CASE Type(p)
  <2>1. PICK entered \in Settings, field \in Fields :
            form' = [form EXCEPT ![p].fields = entered, ![p].typed = @ \cup {field}]
    BY <1>4 DEF Type
  <2> DEFINE f == [form[p] EXCEPT !.fields = entered, !.typed = @ \cup {field}]
  <2>2. form' = [form EXCEPT ![p] = f]
    BY <2>1
  <2>3. /\ f.stage = form[p].stage /\ f.entries = form[p].entries
        /\ f.selected = form[p].selected /\ f.typed = form[p].typed \cup {field}
        /\ f.typedAtSave = form[p].typedAtSave /\ f.saving = form[p].saving
        /\ f.target = form[p].target
    BY <1>0 DEF FormHasSettings, FormFields
  <2>4. edits' \in 0..MaxEdits
    BY <1>0, <1>4, EditsAssumption DEF Type
  <2> HIDE DEF f
  <2>5. FormTyped(f)
    BY <1>0, <2>3 DEF FormTyped
  <2> QED
    BY <1>1, <1>4, <2>2, <2>4, <2>5, FormBecomesTyped DEF Type
<1>5. CASE save(p)
  <2> DEFINE f == [form[p] EXCEPT !.saving = "put", !.target = form[p].selected,
                                  !.body = form[p].fields, !.seen = form[p].fields,
                                  !.seenAtSave = form[p].seen,
                                  !.typedAtSave = form[p].typed]
  <2>1. form' = [form EXCEPT ![p] = f] /\ edits' = edits
    BY <1>5 DEF save
  <2>2. /\ f.stage = form[p].stage /\ f.entries = form[p].entries
        /\ f.selected = form[p].selected /\ f.typed = form[p].typed
        /\ f.typedAtSave = form[p].typed /\ f.saving = "put"
        /\ f.target = form[p].selected
    BY <1>0 DEF FormHasSettings, FormFields
  <2>3. form[p].selected # NoLocation
    BY <1>5 DEF save, Picked
  <2> HIDE DEF f
  <2>4. FormTyped(f)
    BY <1>0, <2>2, <2>3 DEF FormTyped
  <2> QED
    BY <1>0, <1>1, <1>5, <2>1, <2>4, FormBecomesTyped DEF save
<1>6. CASE Put(p)
  <2>1. PICK saving \in {"answer", "error"} : form' = [form EXCEPT ![p].saving = saving]
    BY <1>6 DEF Put
  <2> DEFINE f == [form[p] EXCEPT !.saving = saving]
  <2>2. form' = [form EXCEPT ![p] = f] /\ edits' = edits
    BY <1>6, <2>1 DEF Put
  <2>3. /\ f.stage = form[p].stage /\ f.entries = form[p].entries
        /\ f.selected = form[p].selected /\ f.typed = form[p].typed
        /\ f.typedAtSave = form[p].typedAtSave /\ f.saving = saving
        /\ f.target = form[p].target
    BY <1>0 DEF FormHasSettings, FormFields
  <2>4. form[p].saving = "put" /\ form[p].body \in Settings
    BY <1>0, <1>6 DEF Put, FormHasSettings
  <2> HIDE DEF f
  <2>5. FormTyped(f)
    BY <1>0, <2>3, <2>4 DEF FormTyped
  <2>6. DirectoryTypeOK'
    BY <1>1, <1>6, <2>4, StatementsTyped DEF Put
  <2> QED
    BY <1>0, <2>2, <2>5, <2>6, FormBecomesTyped
<1>7. CASE Answer(p)
  <2> DEFINE saved == IF form[p].saving = "error" THEN form[p].entries
                      ELSE [form[p].entries EXCEPT ![form[p].target] = form[p].body]
             f == Saved(form[p], saved)
  <2>1. form' = [form EXCEPT ![p] = f] /\ edits' = edits
    BY <1>7 DEF Answer
  <2>2. DOMAIN saved = DOMAIN form[p].entries
    OBVIOUS
  <2>3. /\ f.stage = form[p].stage /\ f.entries = saved
        /\ f.selected = form[p].selected /\ f.typed = form[p].typed
        /\ f.typedAtSave = {} /\ f.saving = "no" /\ f.target = NoLocation
    <3> HIDE DEF saved
    <3> QED
      BY <1>0 DEF Saved, FormHasSettings, FormFields
  <2> HIDE DEF f, saved
  <2>4. FormTyped(f)
    BY <1>0, <2>2, <2>3 DEF FormTyped
  <2> QED
    BY <1>0, <1>1, <1>7, <2>1, <2>4, FormBecomesTyped DEF Answer
<1> QED
  BY <1>2, <1>3, <1>4, <1>5, <1>6, <1>7 DEF PanelStep

---------------------------------------------------------------------------

LEMMA ConsoleInvStep ==
    ASSUME ConsoleInv, [ConsoleNext]_consoleVars
    PROVE  ConsoleInv'
<1> USE DEF ConsoleInv
<1>1. NothingOutlivesItsConnection' /\ FormInv'
  BY NothingStep, FormStep
<1>2. ASSUME UNCHANGED tabVars PROVE RequestsTyped'
  BY <1>2 DEF tabVars, RequestsTyped, RequestTyped, RequestRecords, ConnectionIds
<1>3. ASSUME UNCHANGED settingsVars PROVE FormsTyped'
  BY <1>3 DEF settingsVars, FormsTyped, FormTyped, LocationIds, ConnectionIds, NoLocation,
              Fields
<1>4. CASE Editing /\ UNCHANGED tabVars
  BY <1>1, <1>2, <1>4, PanelTyped DEF Editing
<1>5. CASE Connecting /\ UNCHANGED settingsVars
  <2>1. ASSUME NEW t \in Tabs, Click(t) PROVE DirectoryTypeOK'
    <3>1. UNCHANGED directory
      BY <2>1 DEF Click, loadAccounts, loadLocations, pullReviews, disconnect, Start
    <3> QED
      BY <3>1, StatementsTyped
  <2> QED
    BY <1>1, <1>3, <1>5, <2>1, StartTyped, ServeTyped DEF Connecting
<1>6. CASE saveConnection /\ UNCHANGED <<settingsVars, tabVars>>
  BY <1>1, <1>2, <1>3, <1>6, StatementsTyped
<1>7. CASE UNCHANGED consoleVars
  BY <1>1, <1>2, <1>3, <1>7, StatementsTyped DEF consoleVars
<1> QED
  BY <1>4, <1>5, <1>6, <1>7 DEF ConsoleNext

(***************************************************************************)
(* Tables, requests and forms are what they are taken for: a request that  *)
(* has got as far as a statement has what the statement needs, a form      *)
(* shows a location of its picker, and a save names a location             *)
(* (ConnectionPanel.tsx, SettingsPanel.tsx, 0001_init.sql).                *)
(***************************************************************************)
THEOREM ConsoleTypes == ConsoleSpec => []ConsoleTypeOK
  BY ConsoleTypesInit, ConsoleInvStep, ConsoleInvTypes, PTL DEF ConsoleSpec
=============================================================================
