---------------------------- MODULE JobInspector ----------------------------
(***************************************************************************)
(* What a job's panel shows beside its status: the files of its workspace  *)
(* (WorkspaceBrowser.vue), its artifacts (ArtifactBrowser.vue) and the     *)
(* preview (JobPanel.vue).  Each asks for something of the job shown and   *)
(* shows the answer when it comes.  A behaviour follows one of the three.  *)
(***************************************************************************)
EXTENDS Naturals, FiniteSets

CONSTANTS
    InspectedJobs,
    Names,           \* paths of files, names of artifacts
    None,
    MaxOpens         \* what the user does, and the page (a bound)

VARIABLES
    browser,         \* "workspace", "artifact" or "preview"
    job,             \* the job of the panel
    names,           \* entries, artifacts
    wanted,          \* requestedArtifactName
    selected,        \* selectedPath, selected
    content,         \* file, payload, localPreviewUrl: of a job and a name
    listing,         \* loading, of the list
    opening,         \* fileLoading, payloadLoading, buildingPreview
    requested,       \* requests sent and answers under way
    overtaken,       \* history: the job or the selection changed while one was under way,
                     \* and the last answer has not left something of the job shown
    opens

vars == <<browser, job, names, wanted, selected, content, listing, opening, requested, overtaken, opens>>

Nothing == [job |-> None, name |-> None]
Ask(kind, n) == [kind |-> kind, id |-> opens, job |-> job, name |-> n]
Openings == {r \in requested : r.kind # "list"}

Init ==
    /\ browser \in {"workspace", "artifact", "preview"}
    /\ job = CHOOSE j \in InspectedJobs : TRUE
    /\ names = {} /\ wanted = None /\ selected = None /\ content = Nothing
    /\ listing = (browser # "preview")
    /\ opening = FALSE /\ overtaken = FALSE /\ opens = 0
    /\ requested = IF browser = "preview" THEN {} ELSE {Ask("list", None)}

Act == opens < MaxOpens /\ opens' = opens + 1

----------------------------------------------------------------------------

\* Mutant: a file is opened while another is loading.
OpenFileAtOnce(kind, n, rest) ==
    /\ selected' = n /\ opening' = TRUE
    /\ requested' = rest \cup {Ask(kind, n)}
    /\ UNCHANGED <<listing, overtaken>>

\* openFile: nothing while another file is loading.  kind is "open", or "first" when the
\* loading of a list waits for it.
OpenFile(kind, n, rest) ==
    IF opening THEN /\ requested' = rest
                    /\ listing' = (listing /\ kind # "first")
                    /\ UNCHANGED <<selected, opening, overtaken>>
    ELSE /\ selected' = n /\ opening' = TRUE
         /\ requested' = rest \cup {Ask(kind, n)}
         /\ UNCHANGED <<listing, overtaken>>

\* openArtifact: whatever is loading.
OpenArtifact(kind, n, rest) ==
    /\ selected' = n /\ opening' = TRUE
    /\ requested' = rest \cup {Ask(kind, n)}
    /\ overtaken' = (overtaken \/ Openings # {})
    /\ UNCHANGED listing

Open(kind, n, rest) ==
    \/ browser = "workspace" /\ OpenFile(kind, n, rest)
    \/ browser = "artifact" /\ OpenArtifact(kind, n, rest)

\* loadTree and loadList up to their request, for the job shown.
LoadList(j) == listing' = TRUE /\ requested' = requested \cup {[Ask("list", None) EXCEPT !.job = j]}

\* The user opens an entry of the list.
Choose(n) ==
    /\ Act /\ n \in names /\ Open("open", n, requested)
    /\ UNCHANGED <<browser, job, names, wanted, content>>

\* An artifact of a stage is asked for (onOpenArtifact); the list is loaded if it is not in it.
Want(n) ==
    /\ browser = "artifact" /\ n # wanted /\ Act /\ wanted' = n
    /\ IF selected = n THEN UNCHANGED <<selected, listing, opening, requested, overtaken>>
       ELSE IF n \in names THEN Open("open", n, requested)
       ELSE LoadList(job) /\ UNCHANGED <<selected, opening, overtaken>>
    /\ UNCHANGED <<browser, job, names, content>>

\* The refresh button.
Refresh ==
    /\ browser # "preview" /\ ~listing /\ Act /\ LoadList(job)
    /\ UNCHANGED <<browser, job, names, wanted, selected, content, opening, overtaken>>

\* onBuildPreview.
BuildPreview ==
    /\ browser = "preview" /\ ~opening /\ Act
    /\ opening' = TRUE /\ requested' = requested \cup {Ask("open", None)}
    /\ UNCHANGED <<browser, job, names, wanted, selected, content, listing, overtaken>>

\* The page shows another job: nothing is selected, and the list is loaded for it.
JobChanges(j) ==
    /\ j # job /\ Act
    /\ job' = j /\ selected' = None /\ content' = Nothing /\ wanted' = None
    /\ IF browser = "preview" THEN UNCHANGED <<listing, requested>> ELSE LoadList(j)
    /\ overtaken' = (Openings # {})
    /\ UNCHANGED <<browser, names, opening>>

----------------------------------------------------------------------------

\* loadTree and loadList from their answer on: an entry is opened if none is selected, or
\* the artifact that was asked for.
ListArrives(r) ==
    /\ r.kind = "list"
    /\ \/ \E found \in SUBSET Names :
            /\ names' = found
            /\ \/ wanted \in found /\ Open("first", wanted, requested \ {r})
               \/ /\ wanted \notin found /\ selected = None
                  /\ \E n \in found : Open("first", n, requested \ {r})
               \/ /\ wanted \notin found /\ (selected # None \/ found = {})
                  /\ requested' = requested \ {r} /\ listing' = FALSE
                  /\ UNCHANGED <<selected, opening, overtaken>>
       \/ /\ requested' = requested \ {r} /\ listing' = FALSE
          /\ UNCHANGED <<names, selected, opening, overtaken>>
    /\ UNCHANGED <<browser, job, wanted, content, opens>>

\* The answer to an opening is shown, or it failed and what was shown stays.
OpenArrives(r) ==
    /\ r.kind # "list"
    /\ content' \in {content, [job |-> r.job, name |-> r.name]}
    /\ opening' = FALSE /\ requested' = requested \ {r}
    /\ listing' = (listing /\ r.kind # "first")
    /\ overtaken' = (overtaken /\ ~(Openings = {r} /\ content'.job \in {None, job}))
    /\ UNCHANGED <<browser, job, names, wanted, selected, opens>>

Next ==
    \/ \E n \in Names : Choose(n) \/ Want(n)
    \/ Refresh \/ BuildPreview
    \/ \E j \in InspectedJobs : JobChanges(j)
    \/ \E r \in requested : ListArrives(r) \/ OpenArrives(r)

----------------------------------------------------------------------------
(* Properties *)

\* What is shown is of the job of the panel, and what is on its way is what is selected,
\* except when something was on its way already as the job changed, or as another artifact
\* was opened, until the last answer leaves something of the job shown: no answer is compared
\* with what is shown by then (WorkspaceBrowser 54, ArtifactBrowser 51, JobPanel 149).
ContentIsOfItsJob ==
    overtaken \/ /\ content.job \in {None, job}
                 /\ \A r \in Openings : r.job = job /\ r.name = selected
=============================================================================
