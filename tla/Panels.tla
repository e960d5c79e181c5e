------------------------------- MODULE Panels -------------------------------
(***************************************************************************)
(* The parts of the page that load and show something of their own: the    *)
(* settings dialog, the history, the advanced settings of a job, the       *)
(* browsers of a job's panel and a rendered message.  They share no state, *)
(* so a behaviour follows one of them, and TLC adds their states instead   *)
(* of multiplying them.                                                    *)
(***************************************************************************)
EXTENDS Naturals, FiniteSets

CONSTANTS
    Providers, EnvProviders, Preset, Models, Jobs, Names, Contents, None,
    PageSize, MaxClicks, MaxFaults, MaxSteps, MaxChanges, MaxRounds, MaxOpens, MaxVersions

ASSUME PanelsAssumption ==
    /\ None \notin Providers \cup Models \cup Jobs \cup Names \cup Contents
    /\ "active" \notin Providers       \* what busyId is while the active model is applied
    /\ EnvProviders \subseteq Providers /\ Preset \subseteq Providers
    /\ IsFiniteSet(Jobs) /\ PageSize \in Nat \ {0}
    /\ {MaxClicks, MaxFaults, MaxSteps, MaxChanges, MaxRounds, MaxOpens, MaxVersions} \subseteq Nat

VARIABLES
    panel,
    store, chosen, rows, active, busyId, qcBusy, phase, calls, unsure, clicks, faults,
    starred, filed, updated, listed, archived, cursor, hasMore, loading, loadingMore, failed,
    actionIds, pages, edits, mixed, moved, steps, changes,
    settings, form, models, known, formLoading, modelLoading, tasks, crossed, rounds,
    browser, job, names, wanted, selected, content, listing, opening, requested, overtaken, opens,
    markdown, html, rendering, renderVersion, renders, broken

Settings == INSTANCE ProviderPanel
History == INSTANCE HistoryPanel
Form == INSTANCE SettingsForm WITH loading <- formLoading
Inspector == INSTANCE JobInspector WITH InspectedJobs <- Jobs
Message == INSTANCE MarkdownView

settingsVars == <<store, chosen, rows, active, busyId, qcBusy, phase, calls, unsure,
                  clicks, faults>>
historyVars == <<starred, filed, updated, listed, archived, cursor, hasMore, loading,
                 loadingMore, failed, actionIds, pages, edits, mixed, moved, steps, changes>>
formVars == <<settings, form, models, known, formLoading, modelLoading, tasks, crossed, rounds>>
inspectorVars == <<browser, job, names, wanted, selected, content, listing, opening, requested,
                   overtaken, opens>>
messageVars == <<markdown, html, rendering, renderVersion, renders, broken>>
vars == <<panel, settingsVars, historyVars, formVars, inspectorVars, messageVars>>

Init ==
    /\ panel \in {"settings", "history", "form", "inspector", "message"}
    /\ Settings!Init /\ History!Init /\ Form!Init /\ Message!Init
    /\ Inspector!Init /\ (panel = "inspector" \/ browser = "preview")

Next ==
    /\ \/ /\ panel = "settings" /\ Settings!Next
          /\ UNCHANGED <<historyVars, formVars, inspectorVars, messageVars>>
       \/ /\ panel = "history" /\ History!Next
          /\ UNCHANGED <<settingsVars, formVars, inspectorVars, messageVars>>
       \/ /\ panel = "form" /\ Form!Next
          /\ UNCHANGED <<settingsVars, historyVars, inspectorVars, messageVars>>
       \/ /\ panel = "inspector" /\ Inspector!Next
          /\ UNCHANGED <<settingsVars, historyVars, formVars, messageVars>>
       \/ /\ panel = "message" /\ Message!Next
          /\ UNCHANGED <<settingsVars, historyVars, formVars, inspectorVars>>
    /\ UNCHANGED panel

Spec == Init /\ [][Next]_vars

----------------------------------------------------------------------------
(* Properties: each is stated in the module of its panel *)

\* See ProviderPanel (ProviderSettings.vue 134-377).
SettingsAreCurrent == Settings!SettingsAreCurrent

\* See HistoryPanel (JobHistory.vue 65-124).
HistoryIsAPrefix == History!HistoryIsAPrefix

\* See SettingsForm (JobAdvancedSettings.vue 54-134).
SubmittedAsShown == Form!SubmittedAsShown

\* See JobInspector (WorkspaceBrowser.vue 32-78, ArtifactBrowser.vue 27-74).
ContentIsOfItsJob == Inspector!ContentIsOfItsJob

\* See MarkdownView (MarkdownContent.vue 160-173).
RenderedIsLatest == Message!RenderedIsLatest
=============================================================================
