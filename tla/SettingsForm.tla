---------------------------- MODULE SettingsForm ----------------------------
(***************************************************************************)
(* The provider and model a job is submitted with (JobAdvancedSettings.vue *)
(* in the composer).  The page keeps the settings; the form has fields of  *)
(* its own, tells the page of every change, and takes over what the page   *)
(* sets when it shows a job.  Lists of models arrive later.                *)
(***************************************************************************)
EXTENDS Naturals

CONSTANTS
    Providers,       \* configured providers
    Preset,          \* those with a default model
    None,
    MaxRounds        \* changes by the user and by the page (a bound)

\* A model belongs to a provider: <<p, n>> is the n-th of the models listed for p, and
\* <<p, 0>> a name that somebody typed while p was chosen.
ModelsOf(p) == {<<p, n>> : n \in 1 .. 2}

VARIABLES
    settings,        \* page: jobSettings
    form,            \* provider and model, the fields of the form
    models,          \* the models listed
    known,           \* the providers have been loaded
    loading, modelLoading,
    tasks,           \* what is waiting for an answer
    crossed,         \* history: the page set the settings while something was waiting, and
                     \* has not set another provider's since with nothing waiting
    rounds

vars == <<settings, form, models, known, loading, modelLoading, tasks, crossed, rounds>>

Chosen(p, m) == [provider |-> p, model |-> m]

\* A listed model, one that was typed, for no provider in particular too, or none.
AllSettings == (UNION {{Chosen(p, m) : m \in ModelsOf(p) \cup {<<p, 0>>, None}} : p \in Providers})
                  \cup {Chosen(None, m) : m \in {<<None, 0>>, None}}

Task(kind, p) == [kind |-> kind, id |-> rounds, provider |-> p, active |-> Chosen(None, None)]

Init ==
    /\ settings = Chosen(None, None) /\ form = settings
    /\ models = {} /\ known = FALSE
    /\ loading = TRUE /\ modelLoading = FALSE
    /\ rounds = 0
    /\ tasks = {Task("providers", None)}
    /\ crossed = FALSE

Round == rounds < MaxRounds /\ rounds' = rounds + 1

----------------------------------------------------------------------------
(* What the handlers are made of *)

\* loadModels up to its request.
LoadModels(rest, task) ==
    /\ models' = {}
    /\ IF task.provider = None THEN tasks' = rest /\ UNCHANGED modelLoading
       ELSE tasks' = rest \cup {task} /\ modelLoading' = TRUE

\* emitSettings: the page takes what the form has.
EmitSettings == settings' = form'

FirstOf(list) == IF list = {} THEN None ELSE CHOOSE m \in list : \A k \in list : m[2] <= k[2]
Or(m, other) == IF m # None THEN m ELSE other
DefaultOf(p) == IF p \in Preset THEN <<p, 2>> ELSE None

----------------------------------------------------------------------------
(* Changes *)

Enabled == ~loading /\ ~modelLoading

\* onProviderChange: the model follows when the models of the provider are there.
ChooseProvider(p) ==
    /\ Enabled /\ p # form.provider /\ (p = None \/ known) /\ Round
    /\ form' = Chosen(p, None)
    /\ LoadModels(tasks, Task("change", p))
    /\ IF p = None THEN EmitSettings ELSE UNCHANGED settings
    /\ UNCHANGED <<known, loading, crossed>>

\* onModelChange: a model of the list, or any name typed.
ChooseModel(m) ==
    /\ Enabled /\ Round
    /\ form' = [form EXCEPT !.model = m]
    /\ EmitSettings
    /\ UNCHANGED <<models, known, loading, modelLoading, tasks, crossed>>

\* The page sets the settings of a job it shows (normalizeJobSettings), and the watcher
\* of the form takes them over.
PageSets(s) ==
    /\ Round
    /\ settings' = s /\ form' = s
    /\ IF s.provider # form.provider /\ known THEN LoadModels(tasks, Task("watch", s.provider))
       ELSE UNCHANGED <<models, modelLoading, tasks>>
    /\ crossed' = (tasks # {} \/ (crossed /\ s.provider = form.provider))
    /\ UNCHANGED <<known, loading>>

----------------------------------------------------------------------------
(* Answers *)

\* onMounted: the providers and the active selection are there, or could not be loaded.
\* With no provider chosen, active or configured there is nothing to list.
ProvidersArrive(t) ==
    /\ t.kind = "providers"
    /\ \/ /\ \E active \in AllSettings, first \in Providers \cup {None} :
               LET p == IF form.provider # None THEN form.provider
                        ELSE IF active.provider # None THEN active.provider ELSE first IN
               /\ form' = [form EXCEPT !.provider = p]
               /\ LoadModels(tasks \ {t}, [Task("mount", p) EXCEPT !.active = active])
               /\ IF p = None THEN EmitSettings /\ loading' = FALSE
                  ELSE UNCHANGED <<settings, loading>>
          /\ known' = TRUE
       \/ /\ UNCHANGED form /\ EmitSettings
          /\ tasks' = tasks \ {t} /\ loading' = FALSE
          /\ UNCHANGED <<models, known, modelLoading>>
    /\ UNCHANGED <<crossed, rounds>>

\* loadModels from its answer on, whatever provider is chosen by now.
ModelsListed(t) ==
    /\ models' \in {models, ModelsOf(t.provider)}
    /\ modelLoading' = FALSE /\ tasks' = tasks \ {t}
    /\ UNCHANGED <<known, rounds>>

\* What is left to do of onMounted, with the models loaded or not.
MountArrives(t) ==
    /\ t.kind = "mount" /\ ModelsListed(t)
    /\ LET p == form.provider
           ofActive == IF p = t.active.provider THEN t.active.model ELSE None IN
       form' = [form EXCEPT !.model = Or(@, Or(ofActive, Or(DefaultOf(p), FirstOf(models'))))]
    /\ EmitSettings /\ loading' = FALSE /\ UNCHANGED crossed

\* Mutant: the page is not told of the model that followed the provider.
ChangeArrivesQuietly(t) ==
    /\ t.kind = "change" /\ ModelsListed(t)
    /\ form' = [form EXCEPT !.model = Or(DefaultOf(form.provider), FirstOf(models'))]
    /\ UNCHANGED <<settings, loading, crossed>>

\* What is left to do of onProviderChange.
ChangeArrives(t) ==
    /\ t.kind = "change" /\ ModelsListed(t)
    /\ form' = [form EXCEPT !.model = Or(DefaultOf(form.provider), FirstOf(models'))]
    /\ EmitSettings /\ UNCHANGED <<loading, crossed>>

WatchArrives(t) ==
    t.kind = "watch" /\ ModelsListed(t) /\ UNCHANGED <<settings, form, loading, crossed>>

Next ==
    \/ \E p \in Providers \cup {None} : ChooseProvider(p)
    \/ \E m \in models \cup {<<form.provider, 0>>, None} : ChooseModel(m)
    \/ \E s \in AllSettings : PageSets(s)
    \/ \E t \in tasks : \/ ProvidersArrive(t) \/ MountArrives(t)
                        \/ ChangeArrives(t) \/ WatchArrives(t)

----------------------------------------------------------------------------
(* Properties *)

\* A job is submitted with what the form shows, once the form has its answers; and the
\* model fits the provider, except after the page changed the settings while the form was
\* waiting, until it changes the provider again with nothing waiting: what is waiting
\* goes on with the other provider (JobAdvancedSettings 70-134 do not look).
SubmittedAsShown ==
    /\ ~loading /\ (\A t \in tasks : t.kind # "change") => settings = form
    /\ settings.model = None \/ crossed \/ settings.model[1] = settings.provider
=============================================================================
