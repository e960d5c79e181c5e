--------------------------- MODULE ProviderPanel ---------------------------
(***************************************************************************)
(* The settings dialog for the providers (ProviderSettings.vue): quick     *)
(* connect, the active model and a row for every provider, over the record *)
(* of the providers that the bridge keeps (web.py, server.ts, config.ts).  *)
(* One busyId locks one row; an answer for any row unlocks it.  What is in *)
(* a field is whatever the user typed or picked there, or what an answer   *)
(* left there; texts, base URLs, the lists of models and the catalog's own *)
(* default models are left out.                                            *)
(***************************************************************************)
EXTENDS Naturals, FiniteSets

CONSTANTS
    Providers,
    EnvProviders,    \* those with a key in the environment
    Models,
    None,
    MaxClicks,       \* requests the user causes (a bound)
    MaxFaults        \* requests or answers that get lost (a bound)

VARIABLES
    store,       \* server: the record of every provider
    chosen,      \* server: the active selection
    rows,        \* providers: what the dialog knows of every provider
    active,      \* active: the selection the dialog names as the current one
    busyId, qcBusy,
    phase,       \* "loading", "error" or "shown"
    calls,       \* requests sent and answers under way
    unsure,      \* what the dialog cannot know until it is loaded again
    clicks, faults

server == <<store, chosen>>
shown == <<rows, active>>
locks == <<busyId, qcBusy, phase>>
vars == <<server, shown, locks, calls, unsure, clicks, faults>>

Selection(p, m) == [provider |-> p, model |-> m]
NoSelection == Selection(None, None)

\* statusOf: a stored key comes before one of the environment.
Row(p, record) ==
    [key |-> IF record.key THEN "stored" ELSE IF p \in EnvProviders THEN "env" ELSE "none",
     model |-> record.model]
NoRow == [key |-> "none", model |-> None]

\* What is shown that a request can change.
Touched(c) ==
    CASE c.kind = "save" -> {c.provider}
      [] c.kind \in {"remove", "quick"} -> {c.provider, "active"}
      [] c.kind \in {"activate", "apply"} -> {"active"}
      [] c.kind = "reload" -> Providers \cup {"active"}
      [] c.kind = "test" -> {}

\* Changes of the same thing that overlap may be answered in another order than made.
Doubts(c, others) == UNION {Touched(d) \cap Touched(c) : d \in others}

Call(kind, p, key, m) ==
    [kind |-> kind, id |-> clicks, provider |-> p, key |-> key, model |-> m,
     answer |-> "none", rows |-> <<>>, selection |-> <<>>, left |-> FALSE]
Reload == Call("reload", None, FALSE, None)

EmptyRows == [p \in Providers |-> NoRow]

Init ==
    /\ store = [p \in Providers |-> [key |-> FALSE, model |-> None]]
    /\ chosen = NoSelection
    /\ rows = EmptyRows /\ active = NoSelection
    /\ busyId = None /\ qcBusy = FALSE /\ phase = "loading"
    /\ clicks = 0 /\ faults = 0
    /\ calls = {Reload}
    /\ unsure = {}

----------------------------------------------------------------------------
(* What the user does *)

Send(c) ==
    /\ phase = "shown"
    /\ clicks < MaxClicks /\ clicks' = clicks + 1
    /\ calls' = calls \cup {c}
    /\ unsure' = unsure \cup Doubts(c, calls)
    /\ UNCHANGED <<server, rows, phase, faults>>

\* A button of a row: it is locked while the row is the busy one.
OfRow(c) ==
    /\ busyId # c.provider /\ busyId' = c.provider
    /\ Send(c) /\ UNCHANGED <<active, qcBusy>>

\* save: a key is sent if one was typed, a default model if the field has one.
Save(p) == \E key \in BOOLEAN, m \in Models \cup {None} : OfRow(Call("save", p, key, m))
Test(p) == OfRow(Call("test", p, FALSE, None))
Remove(p) == rows[p].key = "stored" /\ OfRow(Call("remove", p, FALSE, None))

\* activate: the model of the field, or the row's, or the first listed if any is.
Activate(p) ==
    \E m \in Models \cup {rows[p].model} : OfRow(Call("activate", p, FALSE, m))

\* Mutant: the selection is shown as active before the server has it.
ApplyAtOnce(p, m) ==
    /\ busyId # "active" /\ busyId' = "active"
    /\ Send(Call("apply", p, FALSE, m)) /\ active' = Selection(p, m) /\ UNCHANGED qcBusy

\* applyActiveModel: the provider and the model in the fields of the active block.
ApplyActiveModel(p, m) ==
    /\ busyId # "active" /\ busyId' = "active"
    /\ Send(Call("apply", p, FALSE, m)) /\ UNCHANGED <<active, qcBusy>>

\* runQuickConnect, with a key typed and perhaps a model.
RunQuickConnect(p) ==
    /\ ~qcBusy /\ qcBusy' = TRUE
    /\ \E m \in Models \cup {None} : Send(Call("quick", p, TRUE, m))
    /\ UNCHANGED <<active, busyId>>

\* The dialog is closed and opened again: the answers to what it sent find nobody, and
\* what was sent is done all the same.
Reopen ==
    LET undone == {c \in calls : c.answer \in {"none", "saved"}
                                  /\ c.kind \notin {"reload", "test"}} IN
    /\ clicks < MaxClicks /\ clicks' = clicks + 1
    /\ rows' = EmptyRows /\ active' = NoSelection
    /\ busyId' = None /\ qcBusy' = FALSE /\ phase' = "loading"
    /\ calls' = {[c EXCEPT !.left = TRUE] : c \in undone} \cup {Reload}
    /\ unsure' = Doubts(Reload, undone)
    /\ UNCHANGED <<server, faults>>

----------------------------------------------------------------------------
(* What the server does *)

\* An answer, if the dialog that asked is still there.
Answered(c, answer) ==
    calls' = (calls \ {c}) \cup IF c.left THEN {} ELSE {answer}

Saved(c) ==
    [store EXCEPT ![c.provider] =
        [key |-> @.key \/ c.key, model |-> IF c.model = None THEN @.model ELSE c.model]]

\* upsertProvider, removeProvider and setActive, and the test of a connection.
Serve(c) ==
    /\ c.answer = "none"
    /\ \/ /\ c.kind = "save" /\ store' = Saved(c) /\ UNCHANGED chosen
          /\ Answered(c, [c EXCEPT !.answer = "ok",
                             !.rows = [p \in {c.provider} |-> Row(p, store'[p])]])
       \/ /\ c.kind = "remove"
          /\ store' = [store EXCEPT ![c.provider] = [key |-> FALSE, model |-> None]]
          /\ chosen' = IF chosen.provider = c.provider THEN NoSelection ELSE chosen
          /\ Answered(c, [c EXCEPT !.answer = "ok"])
       \/ /\ c.kind \in {"activate", "apply"}
          /\ chosen' = Selection(c.provider, c.model) /\ UNCHANGED store
          /\ Answered(c, [c EXCEPT !.answer = "ok", !.selection = chosen'])
       \/ /\ c.kind = "test" /\ UNCHANGED server
          /\ Answered(c, [c EXCEPT !.answer = "ok"])
    /\ UNCHANGED <<shown, locks, unsure, clicks, faults>>

\* The two reads of reload, getProviders and getActiveProvider, in any order.
ServeReload(c) ==
    /\ c.kind = "reload" /\ c.answer = "none"
    /\ \/ /\ c.rows = <<>>
          /\ LET read == [c EXCEPT !.rows = [p \in Providers |-> Row(p, store[p])]] IN
             Answered(c, IF c.selection = <<>> THEN read ELSE [read EXCEPT !.answer = "ok"])
       \/ /\ c.selection = <<>>
          /\ LET read == [c EXCEPT !.selection = chosen] IN
             Answered(c, IF c.rows = <<>> THEN read ELSE [read EXCEPT !.answer = "ok"])
    /\ UNCHANGED <<server, shown, locks, unsure, clicks, faults>>

\* llm_quick_connect saves, tests and activates; where it stops, what was done stays.
QuickConnectSaves(c) ==
    /\ c.kind = "quick" /\ c.answer = "none"
    /\ store' = Saved(c)
    /\ calls' = (calls \ {c}) \cup {[c EXCEPT !.answer = "saved"]}
    /\ UNCHANGED <<chosen, shown, locks, unsure, clicks, faults>>

QuickConnectEnds(c) ==
    /\ c.kind = "quick" /\ c.answer = "saved"
    /\ \/ Answered(c, [c EXCEPT !.answer = "refused"]) /\ UNCHANGED chosen
       \/ /\ \E m \in IF c.model # None THEN {c.model} ELSE Models :
               chosen' = Selection(c.provider, m)
          /\ Answered(c, [c EXCEPT !.answer = "ok"])
    /\ UNCHANGED <<store, shown, locks, unsure, clicks, faults>>

\* A request is refused or lost before it does anything, or its answer does not arrive.
CallFails(c) ==
    /\ c.answer # "failed" /\ ~c.left
    /\ faults < MaxFaults /\ faults' = faults + 1
    /\ calls' = (calls \ {c}) \cup {[c EXCEPT !.answer = "failed"]}
    /\ unsure' = unsure \cup IF c.answer = "none" THEN {} ELSE Touched(c)
    /\ UNCHANGED <<server, shown, locks, clicks>>

----------------------------------------------------------------------------
(* What the dialog does with an answer *)

\* reload, from its answers on.
ReloadArrives(c) ==
    /\ c.kind = "reload" /\ c.answer \in {"ok", "failed"}
    /\ \/ /\ c.answer = "ok" /\ phase' = "shown"
          /\ rows' = c.rows /\ active' = c.selection
       \/ c.answer = "failed" /\ phase' = "error" /\ UNCHANGED shown
    /\ qcBusy' = FALSE
    /\ calls' = calls \ {c}
    /\ UNCHANGED <<server, busyId, unsure, clicks, faults>>

\* The answers to the buttons; whatever row one is for, it unlocks the one that is busy.
ButtonAnswered(c) ==
    LET p == c.provider IN
    /\ c.kind \in {"save", "remove", "activate", "apply", "test"} /\ c.answer \in {"ok", "failed"}
    /\ busyId' = None /\ calls' = calls \ {c}
    /\ \/ /\ c.kind = "save" /\ c.answer = "ok"
          /\ rows' = [rows EXCEPT ![p] = c.rows[p]]
          /\ UNCHANGED <<active, unsure>>
       \/ /\ c.kind = "remove" /\ c.answer = "ok"
          /\ rows' = [rows EXCEPT ![p] = NoRow]
          /\ unsure' = unsure \cup (EnvProviders \cap {p})
                          \cup IF active.provider = p THEN {"active"} ELSE {}
          /\ UNCHANGED active
       \/ /\ c.kind \in {"activate", "apply"} /\ c.answer = "ok"
          /\ active' = c.selection /\ UNCHANGED <<rows, unsure>>
       \/ (c.kind = "test" \/ c.answer = "failed") /\ UNCHANGED <<shown, unsure>>
    /\ UNCHANGED <<server, qcBusy, phase, clicks, faults>>

\* runQuickConnect from its answer on: the dialog is loaded again only if all went well.
QuickConnectArrives(c) ==
    /\ c.kind = "quick" /\ c.answer \in {"ok", "refused", "failed"}
    /\ IF c.answer = "ok"
       THEN /\ phase' = "loading" /\ calls' = (calls \ {c}) \cup {Reload}
            /\ unsure' = Doubts(Reload, calls \ {c}) /\ UNCHANGED qcBusy
       ELSE /\ qcBusy' = FALSE /\ calls' = calls \ {c}
            /\ unsure' = unsure \cup IF c.answer = "refused" THEN {c.provider} ELSE {}
            /\ UNCHANGED phase
    /\ UNCHANGED <<server, shown, busyId, clicks, faults>>

----------------------------------------------------------------------------

User ==
    \/ \E p \in Providers : Save(p) \/ Test(p) \/ Remove(p) \/ Activate(p) \/ RunQuickConnect(p)
    \/ \E p \in Providers \cup {None}, m \in Models \cup {None} : ApplyActiveModel(p, m)
    \/ Reopen

Next ==
    \/ User
    \/ \E c \in calls : \/ Serve(c) \/ ServeReload(c) \/ CallFails(c)
                        \/ QuickConnectSaves(c) \/ QuickConnectEnds(c)
                        \/ ReloadArrives(c) \/ ButtonAnswered(c) \/ QuickConnectArrives(c)

----------------------------------------------------------------------------
(* Properties *)

\* What the dialog shows is what the bridge has stored, for whatever no request is under
\* way: the rows with their keys and default models, and the active selection.  Except
\* what it cannot know, or does not ask for, until it is loaded again: changes of the
\* same thing that overlapped, which one busyId does not prevent (line 38), a lost
\* answer, a quick connect that stopped after saving (162-190), and two effects of
\* deleting a key: a key of the environment takes over, and an active provider is no
\* longer active (295-321 tell neither).
SettingsAreCurrent ==
    phase = "shown" =>
        \A x \in (Providers \cup {"active"}) \ unsure :
            \/ \E c \in calls : x \in Touched(c)
            \/ IF x = "active" THEN active = chosen ELSE rows[x] = Row(x, store[x])
=============================================================================
