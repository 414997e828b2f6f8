--------------------------- MODULE SettingsPanel ---------------------------
(***************************************************************************)
(* The Settings tab (app/components/SettingsPanel.tsx) with its routes     *)
(* (app/api/settings/).  A panel here is one that is mounted: leaving the  *)
(* tab abandons it, and coming back mounts another.  The location can be   *)
(* changed and the form typed into while a save is under way.              *)
(***************************************************************************)
EXTENDS Directory

CONSTANTS
    Panels,    \* mounted Settings tabs
    MaxEdits   \* bound on what admins type in all

ASSUME EditsAssumption == MaxEdits \in Nat

VARIABLES
    form,      \* each panel
    edits      \* edits so far

settingsVars == <<form, edits>>

Fields == {"auto", "voice"}

EMPTY_FORM == [auto |-> FALSE, voice |-> NoVoice]

toForm(s) == IF s = NoSettings THEN EMPTY_FORM ELSE s

NoLocation == [connection |-> 0]

(***************************************************************************)
(* entries maps the locations in the picker to their settings as last      *)
(* seen.  target and body are the request of a save.  The rest is history: *)
(* the settings that the fields on the screen were filled in from, or were *)
(* last sent as (seen), the fields typed into since the location was       *)
(* picked (typed), and both as they were when the request was sent.        *)
(***************************************************************************)
FormRecords ==
    [stage : {"list", "ready", "failed"},
     selected : LocationIds \cup {NoLocation}, fields : Settings,
     seen : SettingsOrNone, typed : SUBSET Fields,
     saving : {"no", "put", "answer", "error"},
     target : LocationIds \cup {NoLocation}, body : Settings,
     seenAtSave : SettingsOrNone, typedAtSave : SUBSET Fields]

NewPanel ==
    [stage |-> "list", entries |-> <<>>, selected |-> NoLocation,
     fields |-> EMPTY_FORM, seen |-> NoSettings, typed |-> {},
     saving |-> "no", target |-> NoLocation, body |-> EMPTY_FORM,
     seenAtSave |-> NoSettings, typedAtSave |-> {}]

\* setEntries, setSelected, setForm
Filled(f, r, entries) ==
    [f EXCEPT !.stage = "ready", !.entries = entries, !.selected = r,
              !.fields = toForm(entries[r]), !.seen = entries[r], !.typed = {}]

\* setEntries, once the answer is there
Saved(f, entries) ==
    [f EXCEPT !.saving = "no", !.target = NoLocation, !.body = EMPTY_FORM,
              !.seenAtSave = NoSettings, !.typedAtSave = {}, !.entries = entries]

SettingsInit ==
    /\ form = [p \in Panels |-> NewPanel]
    /\ edits = 0

---------------------------------------------------------------------------
\* GET /api/settings
listSettings == [r \in listLocationRows |-> getBusinessSettings(r)]

\* The first location, if there is one, is selected.
load(p) ==
    /\ form[p].stage = "list"
    /\ \/ form' = [form EXCEPT ![p].stage = "failed"]
       \/ /\ listSettings = <<>>
          /\ form' = [form EXCEPT ![p].stage = "ready"]
       \/ \E first \in DOMAIN listSettings :
             form' = [form EXCEPT ![p] = Filled(@, first, listSettings)]
    /\ UNCHANGED <<directory, edits>>

---------------------------------------------------------------------------
(* The form *)

Picked(p) == form[p].stage = "ready" /\ form[p].selected # NoLocation

\* Mutant: the fields stay as they were.
selectOnly(p, r) ==
    /\ Picked(p) /\ r \in DOMAIN form[p].entries
    /\ form' = [form EXCEPT ![p].selected = r, ![p].seen = form[p].entries[r],
                            ![p].typed = {}]
    /\ UNCHANGED <<directory, edits>>

selectLocation(p, r) ==
    /\ Picked(p) /\ r \in DOMAIN form[p].entries
    /\ form' = [form EXCEPT ![p] = Filled(@, r, form[p].entries)]
    /\ UNCHANGED <<directory, edits>>

\* setForm({ ...form, [field]: value })
Type(p) ==
    /\ Picked(p)
    /\ edits < MaxEdits
    /\ edits' = edits + 1
    /\ \E entered \in Settings, field \in Fields :
          /\ entered # form[p].fields
          /\ \A other \in Fields \ {field} : entered[other] = form[p].fields[other]
          /\ form' = [form EXCEPT ![p].fields = entered, ![p].typed = @ \cup {field}]
    /\ UNCHANGED directory

\* Mutant: also when no location is selected.
saveAnything(p) ==
    /\ form[p].saving = "no"
    /\ form' = [form EXCEPT ![p].saving = "put", ![p].target = form[p].selected,
                            ![p].body = form[p].fields]
    /\ UNCHANGED <<directory, edits>>

\* The click: location and fields as they are on the screen.
save(p) ==
    /\ Picked(p) /\ form[p].saving = "no"
    /\ form' = [form EXCEPT ![p].saving = "put", ![p].target = form[p].selected,
                            ![p].body = form[p].fields, ![p].seen = form[p].fields,
                            ![p].seenAtSave = form[p].seen,
                            ![p].typedAtSave = form[p].typed]
    /\ UNCHANGED <<directory, edits>>

\* PUT /api/settings/[locationId]: an upsert of the whole form.
Put(p) ==
    /\ form[p].saving = "put"
    /\ \/ /\ upsertBusinessSettings(form[p].target, form[p].body)
          /\ \E answer \in {"answer", "error"} :
                form' = [form EXCEPT ![p].saving = answer]
       \/ form' = [form EXCEPT ![p].saving = "error"] /\ UNCHANGED directory
    /\ UNCHANGED edits

\* The answer updates the entry; the fields stay as they are by now.
Answer(p) ==
    LET saved == IF form[p].saving = "error" THEN form[p].entries
                 ELSE [form[p].entries EXCEPT ![form[p].target] = form[p].body] IN
    /\ form[p].saving \in {"answer", "error"}
    /\ form' = [form EXCEPT ![p] = Saved(@, saved)]
    /\ UNCHANGED <<directory, edits>>

PanelStep(p) ==
    \/ load(p)
    \/ \E r \in LocationIds : selectLocation(p, r)
    \/ Type(p) \/ save(p) \/ Put(p) \/ Answer(p)

SettingsTypeOK ==
    /\ edits \in 0..MaxEdits
    /\ \A p \in Panels :
          /\ DOMAIN form[p].entries \subseteq LocationIds
          /\ form[p].selected \in DOMAIN form[p].entries \cup {NoLocation}
          /\ form[p].saving = "no" <=> form[p].target = NoLocation
          /\ \A r \in DOMAIN form[p].entries : form[p].entries[r] \in SettingsOrNone
          /\ [f \in DOMAIN form[p] \ {"entries"} |-> form[p][f]] \in FormRecords
=============================================================================
