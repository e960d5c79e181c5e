----------------------------- MODULE PanelProofs -----------------------------
(***************************************************************************)
(* Proofs about the panels of the page, for any number of providers, jobs, *)
(* contents, and of requests under way.                                    *)
(***************************************************************************)
EXTENDS Panels, FiniteSetTheorems, SequenceTheorems, TLAPS

-----------------------------------------------------------------------------
(* The settings dialog *)

Kinds == {"save", "test", "remove", "activate", "apply", "quick", "reload"}

Current(x) == IF x = "active" THEN active = chosen ELSE rows[x] = Settings!Row(x, store[x])

\* What a call will show of x, or leaves as it is, is what the server has.
Promised(c, x) ==
    CASE c.kind = "reload" ->
           IF x = "active" THEN c.selection # <<>> \/ c.answer = "ok" => c.selection = chosen
           ELSE c.rows # <<>> \/ c.answer = "ok" => c.rows[x] = Settings!Row(x, store[x])
      [] c.kind = "save" ->
           IF c.answer = "ok" THEN c.rows[x] = Settings!Row(x, store[x]) ELSE Current(x)
      [] c.kind = "remove" ->
           IF c.answer = "ok"
           THEN IF x = "active" THEN active.provider = c.provider \/ active = chosen
                ELSE store[x] = [key |-> FALSE, model |-> None]
           ELSE Current(x)
      [] c.kind \in {"activate", "apply"} ->
           IF c.answer = "ok" THEN c.selection = chosen ELSE Current(x)
      [] c.kind = "quick" ->
           c.answer = "ok" \/ (x # "active" /\ c.answer \in {"saved", "refused"}) \/ Current(x)
      [] c.kind = "test" -> TRUE

SettingsInv ==
    /\ DOMAIN store = Providers /\ DOMAIN rows = Providers
    /\ \A c \in calls : c.kind \in Kinds
    /\ \A c \in calls : c.kind \in {"save", "remove", "quick"} => c.provider \in Providers
    /\ \A c \in calls : c.kind = "reload" /\ (c.rows # <<>> \/ c.answer = "ok") => DOMAIN c.rows = Providers
    /\ \A c, d \in calls : \A x \in Settings!Touched(c) \cap Settings!Touched(d) :
          x \in unsure \/ c = d
    /\ \A c \in calls : c.left => Settings!Touched(c) \subseteq unsure
    /\ \A c \in calls : \A x \in Settings!Touched(c) \ unsure : Promised(c, x)
    /\ SettingsAreCurrent

LEMMA SettingsStart == Init => SettingsInv
<1> SUFFICES ASSUME Init PROVE SettingsInv
  OBVIOUS
<1>1. Settings!Init
  BY DEF Init
<1>2. calls = {Settings!Reload} /\ unsure = {} /\ phase = "loading"
  BY <1>1 DEF Settings!Init
<1>3. /\ Settings!Reload.kind = "reload" /\ Settings!Reload.answer = "none"
      /\ Settings!Reload.rows = <<>> /\ Settings!Reload.selection = <<>>
      /\ Settings!Reload.left = FALSE
  BY DEF Settings!Reload, Settings!Call
<1>4. DOMAIN store = Providers /\ DOMAIN rows = Providers
  BY <1>1 DEF Settings!Init, Settings!EmptyRows
<1> QED
  BY <1>2, <1>3, <1>4
     DEF SettingsInv, Kinds, Promised, SettingsAreCurrent, Settings!SettingsAreCurrent

LEMMA TouchedBy ==
    ASSUME NEW c
    PROVE  /\ c.kind = "save" => Settings!Touched(c) = {c.provider}
           /\ c.kind \in {"remove", "quick"} => Settings!Touched(c) = {c.provider, "active"}
           /\ c.kind \in {"activate", "apply"} => Settings!Touched(c) = {"active"}
           /\ c.kind = "reload" => Settings!Touched(c) = Providers \cup {"active"}
           /\ c.kind = "test" => Settings!Touched(c) = {}
  BY DEF Settings!Touched

LEMMA TouchedIsShown ==
    ASSUME NEW c, c.kind \in Kinds,
           c.kind \in {"save", "remove", "quick"} => c.provider \in Providers
    PROVE  Settings!Touched(c) \subseteq Providers \cup {"active"}
  BY TouchedBy DEF Kinds

LEMMA SameTouched ==
    ASSUME NEW c, NEW d, c.kind \in Kinds, d.kind = c.kind, d.provider = c.provider
    PROVE  Settings!Touched(d) = Settings!Touched(c)
  BY TouchedBy DEF Kinds

LEMMA DoubtsAre ==
    ASSUME NEW c, NEW others, NEW d \in others,
           NEW x \in Settings!Touched(c) \cap Settings!Touched(d)
    PROVE  x \in Settings!Doubts(c, others)
  BY DEF Settings!Doubts

\* What is shown of x, and what the server has of it, are left alone.
Same(x) ==
    IF x = "active" THEN UNCHANGED <<active, chosen>>
    ELSE rows'[x] = rows[x] /\ store'[x] = store[x]

LEMMA PromiseKept ==
    ASSUME NEW c \in calls, SettingsInv, NEW x \in Settings!Touched(c), Promised(c, x), Same(x)
    PROVE  Promised(c, x)'
<1>1. Current(x) => Current(x)'
  BY DEF Current, Same
<1>2. c.kind \in Kinds /\ (c.kind = "save" => c.provider \in Providers)
  BY DEF SettingsInv
<1>3. CASE c.kind = "reload"
  BY <1>3 DEF Promised, Same
<1>4. CASE c.kind = "save"
  <2>1. x # "active"
    BY <1>2, <1>4, TouchedBy, PanelsAssumption
  <2> QED
    BY <1>1, <1>4, <2>1 DEF Promised, Same
<1>5. CASE c.kind = "remove"
  BY <1>1, <1>5 DEF Promised, Same
<1>6. CASE c.kind \in {"activate", "apply"}
  <2>1. x = "active"
    BY <1>6, TouchedBy
  <2>2. Promised(c, x) <=> IF c.answer = "ok" THEN c.selection = chosen ELSE Current(x)
    BY <1>6 DEF Promised
  <2> QED
    BY <1>1, <1>6, <2>1, <2>2 DEF Promised, Same
<1>7. CASE c.kind \in {"quick", "test"}
  BY <1>1, <1>7 DEF Promised
<1> QED
  BY <1>2, <1>3, <1>4, <1>5, <1>6, <1>7 DEF Kinds

\* A step that changes a call, and at the server only what the call touches.
LEMMA CallChanges ==
    ASSUME SettingsInv, NEW c \in calls, NEW d,
           d.kind = c.kind, d.provider = c.provider, d.left = c.left,
           calls \ {c} \subseteq calls', calls' \subseteq (calls \ {c}) \cup {d},
           d \in calls' \/ c.left,
           unsure \subseteq unsure', phase' = phase,
           DOMAIN store' = Providers, DOMAIN rows' = Providers,
           \A x \in (Providers \cup {"active"}) \ Settings!Touched(c) : Same(x),
           d.kind = "reload" /\ (d.rows # <<>> \/ d.answer = "ok") => DOMAIN d.rows = Providers,
           \A x \in Settings!Touched(c) \ unsure' : Promised(d, x)'
    PROVE  SettingsInv'
<1>1. c.kind \in Kinds /\ Settings!Touched(d) = Settings!Touched(c)
  BY SameTouched DEF SettingsInv
<1>2. \A e \in calls : Settings!Touched(e) \subseteq Providers \cup {"active"}
  BY TouchedIsShown DEF SettingsInv
<1>3. \A e \in calls' : \/ e \in calls /\ e # c
                        \/ e = d
  OBVIOUS
<1>4. ASSUME NEW e \in calls', NEW x \in Settings!Touched(e) \ unsure'
      PROVE  Promised(e, x)'
  <2>1. CASE e = d
    BY <1>1, <1>4, <2>1
  <2>2. CASE e \in calls /\ e # c
    <3>1. x \notin Settings!Touched(c)
      BY <1>4, <2>2 DEF SettingsInv
    <3>2. Same(x)
      BY <1>2, <1>4, <2>2, <3>1
    <3>3. Promised(e, x)
      BY <1>4, <2>2 DEF SettingsInv
    <3> QED
      BY <1>4, <2>2, <3>2, <3>3, PromiseKept
  <2> QED
    BY <1>3, <2>1, <2>2
<1>5. ASSUME NEW e1 \in calls', NEW e2 \in calls',
             NEW x \in Settings!Touched(e1) \cap Settings!Touched(e2), x \notin unsure'
      PROVE  e1 = e2
  BY <1>1, <1>3, <1>5 DEF SettingsInv
<1>6. SettingsAreCurrent'
  <2> SUFFICES ASSUME phase = "shown", NEW x \in (Providers \cup {"active"}) \ unsure'
               PROVE  (\E e \in calls' : x \in Settings!Touched(e)) \/ Current(x)'
    BY DEF SettingsAreCurrent, Settings!SettingsAreCurrent, Current
  <2>1. CASE x \in Settings!Touched(c)
    <3>1. d \in calls'
      BY <2>1 DEF SettingsInv
    <3> QED
      BY <1>1, <2>1, <3>1
  <2>2. CASE x \notin Settings!Touched(c)
    <3>1. Same(x)
      BY <2>2
    <3>2. (\E e \in calls : x \in Settings!Touched(e)) \/ Current(x)
      BY DEF SettingsInv, SettingsAreCurrent, Settings!SettingsAreCurrent, Current
    <3> QED
      BY <2>2, <3>1, <3>2 DEF Same, Current
  <2> QED
    BY <2>1, <2>2
<1>7. \A e \in calls' :
        /\ e.kind \in Kinds
        /\ e.kind \in {"save", "remove", "quick"} => e.provider \in Providers
        /\ e.kind = "reload" /\ (e.rows # <<>> \/ e.answer = "ok") => DOMAIN e.rows = Providers
        /\ e.left => Settings!Touched(e) \subseteq unsure'
  BY <1>1, <1>3 DEF SettingsInv
<1> QED
  BY <1>4, <1>5, <1>6, <1>7 DEF SettingsInv

\* The answer to a call that brings what it touches up to date.
LEMMA CallArrives ==
    ASSUME SettingsInv, NEW c \in calls, calls' = calls \ {c},
           unsure \subseteq unsure',
           phase' = "shown" => phase = "shown" \/ c.kind = "reload",
           DOMAIN store' = Providers, DOMAIN rows' = Providers,
           \A x \in (Providers \cup {"active"}) \ Settings!Touched(c) : Same(x),
           phase' = "shown" => \A x \in Settings!Touched(c) \ unsure' : Current(x)'
    PROVE  SettingsInv'
<1>1. \A e \in calls : Settings!Touched(e) \subseteq Providers \cup {"active"}
  BY TouchedIsShown DEF SettingsInv
<1>2. ASSUME NEW e \in calls', NEW x \in Settings!Touched(e) \ unsure'
      PROVE  Promised(e, x)'
  <2>1. x \notin Settings!Touched(c)
    BY <1>2 DEF SettingsInv
  <2>2. Same(x)
    BY <1>1, <1>2, <2>1
  <2> QED
    BY <1>2, <2>2, PromiseKept DEF SettingsInv
<1>3. SettingsAreCurrent'
  <2> SUFFICES ASSUME phase' = "shown", NEW x \in (Providers \cup {"active"}) \ unsure'
               PROVE  (\E e \in calls' : x \in Settings!Touched(e)) \/ Current(x)'
    BY DEF SettingsAreCurrent, Settings!SettingsAreCurrent, Current
  <2>1. CASE x \in Settings!Touched(c)
    BY <2>1
  <2>2. CASE x \notin Settings!Touched(c)
    <3>1. Same(x) /\ phase = "shown"
      BY <2>2, TouchedBy
    <3>2. (\E e \in calls : x \in Settings!Touched(e)) \/ Current(x)
      BY <3>1 DEF SettingsInv, SettingsAreCurrent, Settings!SettingsAreCurrent, Current
    <3> QED
      BY <2>2, <3>1, <3>2 DEF Same, Current
  <2> QED
    BY <2>1, <2>2
<1> QED
  BY <1>2, <1>3 DEF SettingsInv

\* A click sends a call for what is shown and not yet in doubt.
LEMMA SendPreserves ==
    ASSUME SettingsInv, NEW c, Settings!Send(c), UNCHANGED active,
           c.kind \in Kinds \ {"reload"}, c.answer = "none", c.left = FALSE,
           c.kind \in {"save", "remove", "quick"} => c.provider \in Providers
    PROVE  SettingsInv'
<1>1. /\ phase = "shown" /\ calls' = calls \cup {c}
      /\ unsure' = unsure \cup Settings!Doubts(c, calls)
      /\ UNCHANGED <<store, chosen, rows, active, phase>>
  BY DEF Settings!Send, Settings!server
<1>2. \A x \in Settings!Touched(c) \ unsure' : x \notin unsure /\ \A d \in calls : x \notin Settings!Touched(d)
  BY <1>1, DoubtsAre
<1>3. Settings!Touched(c) \subseteq Providers \cup {"active"}
  BY TouchedIsShown
<1>4. ASSUME NEW x \in Settings!Touched(c) \ unsure'
      PROVE  Promised(c, x)'
  <2>1. Current(x)
    BY <1>1, <1>2, <1>3, <1>4 DEF SettingsInv, SettingsAreCurrent, Settings!SettingsAreCurrent, Current
  <2>2. Current(x)'
    BY <1>1, <2>1 DEF Current
  <2> QED
    BY <2>2 DEF Promised, Kinds
<1>5. ASSUME NEW e \in calls, NEW x \in Settings!Touched(e) \ unsure'
      PROVE  Promised(e, x)'
  <2>1. Promised(e, x) /\ e.kind \in Kinds
    BY <1>1, <1>5 DEF SettingsInv
  <2>2. Same(x)
    BY <1>1 DEF Same
  <2> QED
    BY <2>1, <2>2, PromiseKept
<1>6. SettingsAreCurrent'
  BY <1>1 DEF SettingsInv, SettingsAreCurrent, Settings!SettingsAreCurrent
<1>7. ASSUME NEW d \in calls', NEW e \in calls',
             NEW x \in Settings!Touched(d) \cap Settings!Touched(e), x \notin unsure'
      PROVE  d = e
  BY <1>1, <1>2, <1>7 DEF SettingsInv
<1>8. \A e \in calls' :
        /\ e.kind \in Kinds
        /\ e.kind \in {"save", "remove", "quick"} => e.provider \in Providers
        /\ e.kind = "reload" /\ (e.rows # <<>> \/ e.answer = "ok") => DOMAIN e.rows = Providers
        /\ e.left => Settings!Touched(e) \subseteq unsure'
  BY <1>1 DEF SettingsInv
<1>9. DOMAIN store' = Providers /\ DOMAIN rows' = Providers
  BY <1>1 DEF SettingsInv
<1> QED
  BY <1>1, <1>4, <1>5, <1>6, <1>7, <1>8, <1>9 DEF SettingsInv

\* The dialog is loaded while other calls are under way: it cannot know of what they touch.
LEMMA LoadsAgain ==
    ASSUME NEW r, r.kind = "reload", r.answer = "none",
           r.rows = <<>>, r.selection = <<>>, r.left = FALSE,
           NEW others, calls' = others \cup {r},
           \A e \in others :
              /\ e.kind \in Kinds
              /\ e.kind \in {"save", "remove", "quick"} => e.provider \in Providers
              /\ e.kind = "reload" /\ (e.rows # <<>> \/ e.answer = "ok") => DOMAIN e.rows = Providers
              /\ Settings!Touched(e) \subseteq unsure',
           DOMAIN store' = Providers, DOMAIN rows' = Providers, phase' = "loading"
    PROVE  SettingsInv'
<1>1. SettingsAreCurrent'
  BY DEF SettingsAreCurrent, Settings!SettingsAreCurrent
<1>2. \A x : Promised(r, x)'
  BY DEF Promised
<1>3. \A e \in calls' : e = r \/ Settings!Touched(e) \subseteq unsure'
  OBVIOUS
<1>4. \A d, e \in calls' : \A x \in Settings!Touched(d) \cap Settings!Touched(e) : x \in unsure' \/ d = e
  BY <1>3
<1>5. \A e \in calls' : \A x \in Settings!Touched(e) \ unsure' : Promised(e, x)'
  BY <1>2, <1>3
<1>6. \A e \in calls' :
        /\ e.kind \in Kinds
        /\ e.kind \in {"save", "remove", "quick"} => e.provider \in Providers
        /\ e.kind = "reload" /\ (e.rows # <<>> \/ e.answer = "ok") => DOMAIN e.rows = Providers
        /\ e.left => Settings!Touched(e) \subseteq unsure'
  BY DEF Kinds
<1> QED
  BY <1>1, <1>4, <1>5, <1>6 DEF SettingsInv

LEMMA ReloadIs ==
    /\ Settings!Reload.kind = "reload" /\ Settings!Reload.answer = "none"
    /\ Settings!Reload.rows = <<>> /\ Settings!Reload.selection = <<>>
    /\ Settings!Reload.left = FALSE
  BY DEF Settings!Reload, Settings!Call

LEMMA ReloadTouches ==
    ASSUME NEW e, e.kind \in Kinds,
           e.kind \in {"save", "remove", "quick"} => e.provider \in Providers,
           NEW others, e \in others
    PROVE  Settings!Touched(e) \subseteq Settings!Doubts(Settings!Reload, others)
<1>1. PICK r : r = Settings!Reload
  OBVIOUS
<1>2. Settings!Touched(r) = Providers \cup {"active"}
  BY <1>1, ReloadIs, TouchedBy
<1>3. Settings!Touched(e) \subseteq Settings!Doubts(r, others)
  BY <1>2, TouchedIsShown, DoubtsAre
<1> QED
  BY <1>1, <1>3

\* A click of any kind.
LEMMA ClickPreserves ==
    ASSUME SettingsInv, NEW kind \in Kinds \ {"reload"}, NEW p, NEW key, NEW m,
           kind \in {"save", "remove", "quick"} => p \in Providers,
           Settings!Send(Settings!Call(kind, p, key, m)), UNCHANGED active
    PROVE  SettingsInv'
<1>1. PICK c : c = Settings!Call(kind, p, key, m)
  OBVIOUS
<1>2. c.kind = kind /\ c.provider = p /\ c.answer = "none" /\ c.left = FALSE
  BY <1>1 DEF Settings!Call
<1>3. Settings!Send(c)
  BY <1>1
<1> QED
  BY <1>2, <1>3, SendPreserves

LEMMA UserPreserves ==
    ASSUME SettingsInv, Settings!User
    PROVE  SettingsInv'
<1>1. ASSUME NEW p \in Providers, Settings!Save(p) PROVE SettingsInv'
  BY <1>1, ClickPreserves DEF Settings!Save, Settings!OfRow, Kinds
<1>2. ASSUME NEW p \in Providers, Settings!Test(p) PROVE SettingsInv'
  BY <1>2, ClickPreserves DEF Settings!Test, Settings!OfRow, Kinds
<1>3. ASSUME NEW p \in Providers, Settings!Remove(p) PROVE SettingsInv'
  BY <1>3, ClickPreserves DEF Settings!Remove, Settings!OfRow, Kinds
<1>4. ASSUME NEW p \in Providers, Settings!Activate(p) PROVE SettingsInv'
  BY <1>4, ClickPreserves DEF Settings!Activate, Settings!OfRow, Kinds
<1>5. ASSUME NEW p \in Providers, Settings!RunQuickConnect(p) PROVE SettingsInv'
  BY <1>5, ClickPreserves DEF Settings!RunQuickConnect, Kinds
<1>6. ASSUME NEW p, NEW m, Settings!ApplyActiveModel(p, m) PROVE SettingsInv'
  BY <1>6, ClickPreserves DEF Settings!ApplyActiveModel, Kinds
<1>7. ASSUME Settings!Reopen PROVE SettingsInv'
  <2>1. DEFINE undone == {c \in calls : c.answer \in {"none", "saved"}
                                         /\ c.kind \notin {"reload", "test"}}
               others == {[c EXCEPT !.left = TRUE] : c \in undone}
  <2>2. /\ calls' = others \cup {Settings!Reload}
        /\ unsure' = Settings!Doubts(Settings!Reload, undone)
        /\ rows' = Settings!EmptyRows /\ phase' = "loading" /\ store' = store
    BY <1>7 DEF Settings!Reopen, Settings!server
  <2>3. ASSUME NEW e \in others
        PROVE  /\ e.kind \in Kinds /\ e.kind # "reload"
               /\ e.kind \in {"save", "remove", "quick"} => e.provider \in Providers
               /\ Settings!Touched(e) \subseteq unsure'
    <3>1. PICK c \in undone : e = [c EXCEPT !.left = TRUE]
      BY <2>3
    <3>2. e.kind = c.kind /\ e.provider = c.provider
      BY <3>1
    <3>3. /\ c.kind \in Kinds /\ c.kind # "reload"
          /\ c.kind \in {"save", "remove", "quick"} => c.provider \in Providers
      BY DEF SettingsInv
    <3>4. PICK sent : sent = undone
      OBVIOUS
    <3>5. Settings!Touched(c) \subseteq Settings!Doubts(Settings!Reload, sent)
      BY <3>3, <3>4, ReloadTouches
    <3>6. Settings!Touched(e) \subseteq unsure'
      BY <2>2, <3>2, <3>3, <3>4, <3>5, SameTouched
    <3> QED
      BY <3>2, <3>3, <3>6
  <2>4. DOMAIN store' = Providers /\ DOMAIN rows' = Providers
    BY <2>2 DEF SettingsInv, Settings!EmptyRows
  <2>5. PICK r, left : r = Settings!Reload /\ left = others
    OBVIOUS
  <2> HIDE DEF others
  <2> QED
    BY <2>2, <2>3, <2>4, <2>5, ReloadIs, LoadsAgain
<1> QED
  BY <1>1, <1>2, <1>3, <1>4, <1>5, <1>6, <1>7 DEF Settings!User

-----------------------------------------------------------------------------
(* The settings dialog: what the server does *)

\* What an answer is, and where it goes.
LEMMA AnsweredCall ==
    ASSUME NEW c \in calls, NEW d, Settings!Answered(c, d)
    PROVE  /\ calls \ {c} \subseteq calls' /\ calls' \subseteq (calls \ {c}) \cup {d}
           /\ d \in calls' \/ c.left
  BY DEF Settings!Answered

\* Saving a provider changes its record only.
LEMMA SavedOne ==
    ASSUME SettingsInv, NEW c \in calls, store' = Settings!Saved(c)
    PROVE  /\ DOMAIN store' = Providers
           /\ \A x \in Providers \ {c.provider} : store'[x] = store[x]
  BY DEF Settings!Saved, SettingsInv

LEMMA SavePreserves ==
    ASSUME SettingsInv, NEW c \in calls, c.kind = "save", c.answer = "none",
           store' = Settings!Saved(c), UNCHANGED <<chosen, rows, active, phase, unsure>>,
           Settings!Answered(c, [c EXCEPT !.answer = "ok",
                     !.rows = [p \in {c.provider} |-> Settings!Row(p, store'[p])]])
    PROVE  SettingsInv'
<1>1. PICK d : d = [c EXCEPT !.answer = "ok",
                     !.rows = [p \in {c.provider} |-> Settings!Row(p, store'[p])]]
  OBVIOUS
<1>2. /\ d.kind = c.kind /\ d.provider = c.provider /\ d.left = c.left /\ d.answer = "ok"
      /\ d.rows[c.provider] = Settings!Row(c.provider, store'[c.provider])
  BY <1>1
<1>3. Settings!Touched(c) = {c.provider} /\ c.provider \in Providers
  BY TouchedBy DEF SettingsInv
<1>4. \A x \in (Providers \cup {"active"}) \ Settings!Touched(c) : Same(x)
  BY <1>3, SavedOne DEF Same
<1>5. \A x \in Settings!Touched(c) \ unsure' : Promised(d, x)'
  BY <1>2, <1>3, PanelsAssumption DEF Promised
<1>6. DOMAIN store' = Providers /\ DOMAIN rows' = Providers
  BY SavedOne DEF SettingsInv
<1>7. Settings!Answered(c, d)
  BY <1>1
<1> QED
  BY <1>2, <1>4, <1>5, <1>6, <1>7, AnsweredCall, CallChanges

LEMMA RemovePreserves ==
    ASSUME SettingsInv, NEW c \in calls, c.kind = "remove", c.answer = "none",
           store' = [store EXCEPT ![c.provider] = [key |-> FALSE, model |-> None]],
           chosen' = IF chosen.provider = c.provider THEN Settings!NoSelection ELSE chosen,
           UNCHANGED <<rows, active, phase, unsure>>,
           Settings!Answered(c, [c EXCEPT !.answer = "ok"])
    PROVE  SettingsInv'
<1>1. PICK d : d = [c EXCEPT !.answer = "ok"]
  OBVIOUS
<1>2. d.kind = c.kind /\ d.provider = c.provider /\ d.left = c.left /\ d.answer = "ok"
  BY <1>1
<1>3. Settings!Touched(c) = {c.provider, "active"} /\ c.provider \in Providers
  BY TouchedBy DEF SettingsInv
<1>4. DOMAIN store' = Providers /\ DOMAIN rows' = Providers
  BY DEF SettingsInv
<1>5. /\ store'[c.provider] = [key |-> FALSE, model |-> None]
      /\ \A x \in Providers \ {c.provider} : store'[x] = store[x]
  BY <1>3 DEF SettingsInv
<1>6. \A x \in (Providers \cup {"active"}) \ Settings!Touched(c) : Same(x)
  BY <1>3, <1>5 DEF Same
<1>7. "active" \notin unsure => active = chosen
  BY <1>3 DEF SettingsInv, Promised, Current
<1>8. \A x \in Settings!Touched(c) \ unsure' : Promised(d, x)'
  BY <1>2, <1>3, <1>5, <1>7 DEF Promised
<1>9. Settings!Answered(c, d)
  BY <1>1
<1> QED
  BY <1>2, <1>4, <1>6, <1>8, <1>9, AnsweredCall, CallChanges

LEMMA SetActivePreserves ==
    ASSUME SettingsInv, NEW c \in calls, c.kind \in {"activate", "apply"}, c.answer = "none",
           UNCHANGED <<store, rows, active, phase, unsure>>,
           Settings!Answered(c, [c EXCEPT !.answer = "ok", !.selection = chosen'])
    PROVE  SettingsInv'
<1>1. PICK d : d = [c EXCEPT !.answer = "ok", !.selection = chosen']
  OBVIOUS
<1>2. /\ d.kind = c.kind /\ d.provider = c.provider /\ d.left = c.left /\ d.answer = "ok"
      /\ d.selection = chosen'
  BY <1>1
<1>3. Settings!Touched(c) = {"active"}
  BY TouchedBy
<1>4. DOMAIN store' = Providers /\ DOMAIN rows' = Providers
  BY DEF SettingsInv
<1>5. \A x \in (Providers \cup {"active"}) \ Settings!Touched(c) : Same(x)
  BY <1>3 DEF Same
<1>6. \A x : Promised(d, x)'
  BY <1>2 DEF Promised
<1>7. Settings!Answered(c, d)
  BY <1>1
<1> QED
  BY <1>2, <1>4, <1>5, <1>6, <1>7, AnsweredCall, CallChanges

\* A step that leaves the server alone.
LEMMA OnlyAnswers ==
    ASSUME SettingsInv, NEW c \in calls, NEW d,
           d.kind = c.kind, d.provider = c.provider, d.left = c.left,
           UNCHANGED <<store, rows, active, chosen, phase>>, unsure \subseteq unsure',
           calls \ {c} \subseteq calls', calls' \subseteq (calls \ {c}) \cup {d},
           d \in calls' \/ c.left,
           d.kind = "reload" /\ (d.rows # <<>> \/ d.answer = "ok") => DOMAIN d.rows = Providers,
           \A x \in Settings!Touched(c) \ unsure' : Promised(d, x)
    PROVE  SettingsInv'
<1>1. DOMAIN store' = Providers /\ DOMAIN rows' = Providers
  BY DEF SettingsInv
<1>2. \A x : Same(x)
  BY DEF Same
<1>3. \A x : Promised(d, x) => Promised(d, x)'
  BY DEF Promised, Current
<1> QED
  BY <1>1, <1>2, <1>3, CallChanges

LEMMA ServePreserves ==
    ASSUME SettingsInv, NEW c \in calls, Settings!Serve(c)
    PROVE  SettingsInv'
<1>1. UNCHANGED <<rows, active, phase, unsure>> /\ c.answer = "none"
  BY DEF Settings!Serve, Settings!shown, Settings!locks
<1>2. CASE c.kind = "test"
  <2>1. PICK d : d = [c EXCEPT !.answer = "ok"]
    OBVIOUS
  <2>2. d.kind = c.kind /\ d.provider = c.provider /\ d.left = c.left
    BY <2>1
  <2>3. UNCHANGED <<store, chosen>> /\ Settings!Answered(c, d)
    BY <1>2, <2>1 DEF Settings!Serve, Settings!server
  <2>4. Settings!Touched(c) = {}
    BY <1>2, TouchedBy
  <2> QED
    BY <1>1, <1>2, <2>2, <2>3, <2>4, AnsweredCall, OnlyAnswers
<1>3. CASE c.kind = "save"
  BY <1>1, <1>3, SavePreserves DEF Settings!Serve
<1>4. CASE c.kind = "remove"
  BY <1>1, <1>4, RemovePreserves DEF Settings!Serve
<1>5. CASE c.kind \in {"activate", "apply"}
  BY <1>1, <1>5, SetActivePreserves DEF Settings!Serve
<1> QED
  BY <1>2, <1>3, <1>4, <1>5 DEF Settings!Serve

\* What the first of the two reads brought is still so when the second is done.
LEMMA ServeReloadPreserves ==
    ASSUME SettingsInv, NEW c \in calls, Settings!ServeReload(c)
    PROVE  SettingsInv'
<1>1. /\ c.kind = "reload" /\ c.answer = "none"
      /\ UNCHANGED <<store, chosen, rows, active, phase, unsure>>
  BY DEF Settings!ServeReload, Settings!server, Settings!shown, Settings!locks
<1>2. c.rows # <<>> => DOMAIN c.rows = Providers
  BY <1>1 DEF SettingsInv
<1>3. Settings!Touched(c) = Providers \cup {"active"}
  BY <1>1, TouchedBy
<1>4. \A x \in Providers \ unsure : c.rows # <<>> => c.rows[x] = Settings!Row(x, store[x])
  BY <1>1, <1>3, PanelsAssumption DEF SettingsInv, Promised
<1>5. "active" \notin unsure /\ c.selection # <<>> => c.selection = chosen
  BY <1>1, <1>3 DEF SettingsInv, Promised
<1>6. ASSUME NEW d, d.kind = c.kind, d.provider = c.provider, d.left = c.left,
             Settings!Answered(c, d),
             d.rows # <<>> \/ d.answer = "ok" =>
                 /\ DOMAIN d.rows = Providers
                 /\ \A x \in Providers \ unsure : d.rows[x] = Settings!Row(x, store[x]),
             "active" \notin unsure /\ (d.selection # <<>> \/ d.answer = "ok")
                => d.selection = chosen
      PROVE  SettingsInv'
  <2>1. \A x \in Settings!Touched(c) \ unsure : Promised(d, x)
    BY <1>1, <1>3, <1>6, PanelsAssumption DEF Promised
  <2> QED
    BY <1>1, <1>6, <2>1, AnsweredCall, OnlyAnswers
<1>7. ASSUME NEW all, all = [p \in Providers |-> Settings!Row(p, store[p])], c.rows = <<>>,
             NEW d, d = IF c.selection = <<>> THEN [c EXCEPT !.rows = all]
                        ELSE [[c EXCEPT !.rows = all] EXCEPT !.answer = "ok"],
             Settings!Answered(c, d)
      PROVE  SettingsInv'
  <2>1. /\ d.kind = c.kind /\ d.provider = c.provider /\ d.left = c.left
        /\ d.rows = all /\ d.selection = c.selection
        /\ d.answer = "ok" => c.selection # <<>>
    BY <1>1, <1>7
  <2>2. DOMAIN all = Providers /\ \A x \in Providers : all[x] = Settings!Row(x, store[x])
    BY <1>7
  <2> QED
    BY <1>5, <1>6, <1>7, <2>1, <2>2
<1>8. ASSUME c.selection = <<>>,
             NEW d, d = IF c.rows = <<>> THEN [c EXCEPT !.selection = chosen]
                        ELSE [[c EXCEPT !.selection = chosen] EXCEPT !.answer = "ok"],
             Settings!Answered(c, d)
      PROVE  SettingsInv'
  <2>1. /\ d.kind = c.kind /\ d.provider = c.provider /\ d.left = c.left
        /\ d.rows = c.rows /\ d.selection = chosen
        /\ d.answer = "ok" => c.rows # <<>>
    BY <1>1, <1>8
  <2> QED
    BY <1>2, <1>4, <1>6, <1>8, <2>1
<1>9. CASE c.rows = <<>> /\ \E d : d = (LET read == [c EXCEPT !.rows = [p \in Providers |-> Settings!Row(p, store[p])]]
                            IN IF c.selection = <<>> THEN read ELSE [read EXCEPT !.answer = "ok"])
                      /\ Settings!Answered(c, d)
  BY <1>7, <1>9
<1>10. CASE c.selection = <<>> /\ \E d : d = (LET read == [c EXCEPT !.selection = chosen]
                            IN IF c.rows = <<>> THEN read ELSE [read EXCEPT !.answer = "ok"])
                      /\ Settings!Answered(c, d)
  BY <1>8, <1>10
<1> QED
  BY <1>9, <1>10 DEF Settings!ServeReload

\* Quick connect leaves the selection alone until it ends well.
LEMMA QuickConnectSavesPreserves ==
    ASSUME SettingsInv, NEW c \in calls, Settings!QuickConnectSaves(c)
    PROVE  SettingsInv'
<1>1. PICK d : d = [c EXCEPT !.answer = "saved"]
  OBVIOUS
<1>2. d.kind = c.kind /\ d.provider = c.provider /\ d.left = c.left /\ d.answer = "saved"
  BY <1>1
<1>3. /\ c.kind = "quick" /\ c.answer = "none" /\ store' = Settings!Saved(c)
      /\ calls' = (calls \ {c}) \cup {d}
      /\ UNCHANGED <<chosen, rows, active, phase, unsure>>
  BY <1>1 DEF Settings!QuickConnectSaves, Settings!shown, Settings!locks
<1>4. Settings!Touched(c) = {c.provider, "active"} /\ c.provider \in Providers
  BY <1>3, TouchedBy DEF SettingsInv
<1>5. \A x \in (Providers \cup {"active"}) \ Settings!Touched(c) : Same(x)
  BY <1>3, <1>4, SavedOne DEF Same
<1>6. "active" \notin unsure => active = chosen
  BY <1>3, <1>4 DEF SettingsInv, Promised, Current
<1>7. \A x \in Settings!Touched(c) \ unsure' : Promised(d, x)'
  BY <1>2, <1>3, <1>6 DEF Promised, Current
<1>8. DOMAIN store' = Providers /\ DOMAIN rows' = Providers
  BY <1>3, SavedOne DEF SettingsInv
<1> QED
  BY <1>2, <1>3, <1>5, <1>7, <1>8, CallChanges

LEMMA QuickConnectEndsPreserves ==
    ASSUME SettingsInv, NEW c \in calls, Settings!QuickConnectEnds(c)
    PROVE  SettingsInv'
<1>1. /\ c.kind = "quick" /\ c.answer = "saved"
      /\ UNCHANGED <<store, rows, active, phase, unsure>>
  BY DEF Settings!QuickConnectEnds, Settings!shown, Settings!locks
<1>2. Settings!Touched(c) = {c.provider, "active"}
  BY <1>1, TouchedBy
<1>3. PICK answer \in {"refused", "ok"} :
         /\ Settings!Answered(c, [c EXCEPT !.answer = answer])
         /\ answer = "refused" => UNCHANGED chosen
  BY DEF Settings!QuickConnectEnds
<1>4. PICK d : d = [c EXCEPT !.answer = answer]
  OBVIOUS
<1>5. d.kind = c.kind /\ d.provider = c.provider /\ d.left = c.left /\ d.answer = answer
  BY <1>4
<1>6. "active" \notin unsure => active = chosen
  BY <1>1, <1>2 DEF SettingsInv, Promised, Current
<1>7. \A x \in Settings!Touched(c) \ unsure' : Promised(d, x)'
  BY <1>1, <1>3, <1>5, <1>6 DEF Promised, Current
<1>8. \A x \in (Providers \cup {"active"}) \ Settings!Touched(c) : Same(x)
  BY <1>1, <1>2 DEF Same
<1>9. DOMAIN store' = Providers /\ DOMAIN rows' = Providers
  BY <1>1 DEF SettingsInv
<1>10. Settings!Answered(c, d)
  BY <1>3, <1>4
<1> QED
  BY <1>1, <1>5, <1>7, <1>8, <1>9, <1>10, AnsweredCall, CallChanges

\* A call that failed before anything was done left everything as it was.
LEMMA CallFailsPreserves ==
    ASSUME SettingsInv, NEW c \in calls, Settings!CallFails(c)
    PROVE  SettingsInv'
<1>1. PICK d : d = [c EXCEPT !.answer = "failed"]
  OBVIOUS
<1>2. /\ d.kind = c.kind /\ d.provider = c.provider /\ d.left = c.left /\ d.answer = "failed"
      /\ d.rows = c.rows /\ d.selection = c.selection
  BY <1>1
<1>3. /\ UNCHANGED <<store, rows, active, chosen, phase>> /\ unsure \subseteq unsure'
      /\ calls' = (calls \ {c}) \cup {d}
      /\ c.answer = "none" \/ Settings!Touched(c) \subseteq unsure'
  BY <1>1 DEF Settings!CallFails, Settings!server, Settings!shown, Settings!locks
<1>4. ASSUME NEW x \in Settings!Touched(c) \ unsure'
      PROVE  Promised(d, x)
  <2>1. c.answer = "none" /\ Promised(c, x)
    BY <1>3, <1>4 DEF SettingsInv
  <2> QED
    BY <1>2, <2>1 DEF Promised
<1>5. d.kind = "reload" /\ (d.rows # <<>> \/ d.answer = "ok") => DOMAIN d.rows = Providers
  BY <1>2 DEF SettingsInv
<1> QED
  BY <1>2, <1>3, <1>4, <1>5, OnlyAnswers

-----------------------------------------------------------------------------
(* The settings dialog: what it does with an answer *)

LEMMA ReloadArrivesPreserves ==
    ASSUME SettingsInv, NEW c \in calls, Settings!ReloadArrives(c)
    PROVE  SettingsInv'
<1>1. /\ c.kind = "reload" /\ calls' = calls \ {c}
      /\ UNCHANGED <<store, chosen, unsure>>
  BY DEF Settings!ReloadArrives, Settings!server
<1>2. Settings!Touched(c) = Providers \cup {"active"}
  BY <1>1, TouchedBy
<1>3. CASE c.answer = "ok"
  <2>1. rows' = c.rows /\ active' = c.selection
    BY <1>3 DEF Settings!ReloadArrives
  <2>2. DOMAIN store' = Providers /\ DOMAIN rows' = Providers
    BY <1>1, <1>3, <2>1 DEF SettingsInv
  <2>3. ASSUME NEW x \in Settings!Touched(c) \ unsure'
        PROVE  Current(x)'
    <3>1. Promised(c, x)
      BY <1>1, <2>3 DEF SettingsInv
    <3> QED
      BY <1>1, <1>3, <2>1, <3>1 DEF Promised, Current
  <2> QED
    BY <1>1, <1>2, <2>2, <2>3, CallArrives
<1>4. CASE c.answer = "failed"
  <2>1. phase' = "error" /\ UNCHANGED <<rows, active>>
    BY <1>4 DEF Settings!ReloadArrives, Settings!shown
  <2>2. DOMAIN store' = Providers /\ DOMAIN rows' = Providers
    BY <1>1, <2>1 DEF SettingsInv
  <2> QED
    BY <1>1, <1>2, <2>1, <2>2, CallArrives
<1> QED
  BY <1>3, <1>4 DEF Settings!ReloadArrives

\* A failed call, and a test, have left what they touch as it is shown.
LEMMA NothingShown ==
    ASSUME SettingsInv, NEW c \in calls, calls' = calls \ {c},
           c.kind = "test" \/ (c.kind \in Kinds \ {"reload"} /\ c.answer = "failed"),
           UNCHANGED <<store, rows, active, chosen, phase>>, unsure' = unsure
    PROVE  SettingsInv'
<1>1. DOMAIN store' = Providers /\ DOMAIN rows' = Providers
  BY DEF SettingsInv
<1>2. \A x : Same(x)
  BY DEF Same
<1>3. ASSUME NEW x \in Settings!Touched(c) \ unsure'
      PROVE  Current(x)'
  <2>1. Promised(c, x) /\ c.kind \in Kinds \ {"reload", "test"} /\ c.answer = "failed"
    BY <1>3, TouchedBy DEF SettingsInv, Kinds
  <2>2. Current(x)
    BY <2>1 DEF Promised, Kinds
  <2> QED
    BY <2>2 DEF Current
<1> QED
  BY <1>1, <1>2, <1>3, CallArrives

LEMMA SaveAnswered ==
    ASSUME SettingsInv, NEW c \in calls, c.kind = "save", c.answer = "ok", calls' = calls \ {c},
           rows' = [rows EXCEPT ![c.provider] = c.rows[c.provider]],
           UNCHANGED <<store, chosen, active, unsure, phase>>
    PROVE  SettingsInv'
<1>1. Settings!Touched(c) = {c.provider} /\ c.provider \in Providers
  BY TouchedBy DEF SettingsInv
<1>2. DOMAIN store' = Providers /\ DOMAIN rows' = Providers
  BY DEF SettingsInv
<1>3. /\ rows'[c.provider] = c.rows[c.provider]
      /\ \A x \in Providers \ {c.provider} : rows'[x] = rows[x]
  BY <1>1 DEF SettingsInv
<1>4. \A x \in (Providers \cup {"active"}) \ Settings!Touched(c) : Same(x)
  BY <1>1, <1>3 DEF Same
<1>5. ASSUME NEW x \in Settings!Touched(c) \ unsure'
      PROVE  Current(x)'
  <2>1. Promised(c, x) /\ x = c.provider /\ x # "active"
    BY <1>1, <1>5, PanelsAssumption DEF SettingsInv
  <2> QED
    BY <1>3, <2>1 DEF Promised, Current
<1> QED
  BY <1>2, <1>4, <1>5, CallArrives

\* A row without a stored key is what is left, unless the environment has a key; and the
\* selection is gone if it was of this provider.
LEMMA RemoveAnswered ==
    ASSUME SettingsInv, NEW c \in calls, c.kind = "remove", c.answer = "ok", calls' = calls \ {c},
           rows' = [rows EXCEPT ![c.provider] = Settings!NoRow],
           unsure' = unsure \cup (EnvProviders \cap {c.provider})
                       \cup IF active.provider = c.provider THEN {"active"} ELSE {},
           UNCHANGED <<store, chosen, active, phase>>
    PROVE  SettingsInv'
<1>1. Settings!Touched(c) = {c.provider, "active"} /\ c.provider \in Providers
  BY TouchedBy DEF SettingsInv
<1>2. DOMAIN store' = Providers /\ DOMAIN rows' = Providers
  BY DEF SettingsInv
<1>3. /\ rows'[c.provider] = Settings!NoRow
      /\ \A x \in Providers \ {c.provider} : rows'[x] = rows[x]
  BY <1>1 DEF SettingsInv
<1>4. \A x \in (Providers \cup {"active"}) \ Settings!Touched(c) : Same(x)
  BY <1>1, <1>3 DEF Same
<1>5. ASSUME NEW x \in Settings!Touched(c) \ unsure'
      PROVE  Current(x)'
  <2>1. Promised(c, x)
    BY <1>5 DEF SettingsInv
  <2>2. CASE x = "active"
    <3>1. active = chosen
      BY <1>5, <2>1, <2>2 DEF Promised
    <3> QED
      BY <2>2, <3>1 DEF Current
  <2>3. CASE x # "active"
    <3>1. x = c.provider /\ store[x] = [key |-> FALSE, model |-> None] /\ x \notin EnvProviders
      BY <1>1, <1>5, <2>1, <2>3 DEF Promised
    <3>2. PICK record : record = store[x]
      OBVIOUS
    <3>3. Settings!Row(x, record) = Settings!NoRow
      BY <3>1, <3>2 DEF Settings!Row, Settings!NoRow
    <3> QED
      BY <1>3, <2>3, <3>1, <3>2, <3>3 DEF Current
  <2> QED
    BY <2>2, <2>3
<1>6. unsure \subseteq unsure'
  OBVIOUS
<1> QED
  BY <1>2, <1>4, <1>5, <1>6, CallArrives

LEMMA ActiveAnswered ==
    ASSUME SettingsInv, NEW c \in calls, c.kind \in {"activate", "apply"}, c.answer = "ok",
           calls' = calls \ {c}, active' = c.selection,
           UNCHANGED <<store, chosen, rows, unsure, phase>>
    PROVE  SettingsInv'
<1>1. Settings!Touched(c) = {"active"}
  BY TouchedBy
<1>2. DOMAIN store' = Providers /\ DOMAIN rows' = Providers
  BY DEF SettingsInv
<1>3. \A x \in (Providers \cup {"active"}) \ Settings!Touched(c) : Same(x)
  BY <1>1 DEF Same
<1>4. \A x \in Settings!Touched(c) \ unsure' : Current(x)'
  BY <1>1 DEF SettingsInv, Promised, Current
<1> QED
  BY <1>2, <1>3, <1>4, CallArrives

LEMMA ButtonAnsweredPreserves ==
    ASSUME SettingsInv, NEW c \in calls, Settings!ButtonAnswered(c)
    PROVE  SettingsInv'
<1>1. /\ c.kind \in Kinds \ {"reload", "quick"} /\ calls' = calls \ {c}
      /\ UNCHANGED <<store, chosen, phase>>
  BY DEF Settings!ButtonAnswered, Settings!server, Kinds
<1>2. CASE /\ c.kind = "save" /\ c.answer = "ok"
           /\ rows' = [rows EXCEPT ![c.provider] = c.rows[c.provider]]
           /\ UNCHANGED <<active, unsure>>
  BY <1>1, <1>2, SaveAnswered
<1>3. CASE /\ c.kind = "remove" /\ c.answer = "ok"
           /\ rows' = [rows EXCEPT ![c.provider] = Settings!NoRow]
           /\ unsure' = unsure \cup (EnvProviders \cap {c.provider})
                          \cup IF active.provider = c.provider THEN {"active"} ELSE {}
           /\ UNCHANGED active
  BY <1>1, <1>3, RemoveAnswered
<1>4. CASE /\ c.kind \in {"activate", "apply"} /\ c.answer = "ok"
           /\ active' = c.selection /\ UNCHANGED <<rows, unsure>>
  BY <1>1, <1>4, ActiveAnswered
<1>5. CASE (c.kind = "test" \/ c.answer = "failed") /\ UNCHANGED <<rows, active, unsure>>
  <2>1. c.kind = "test" \/ (c.kind \in Kinds \ {"reload"} /\ c.answer = "failed")
    BY <1>1, <1>5
  <2> QED
    BY <1>1, <1>5, <2>1, NothingShown
<1> QED
  BY <1>2, <1>3, <1>4, <1>5 DEF Settings!ButtonAnswered, Settings!shown

LEMMA QuickConnectArrivesPreserves ==
    ASSUME SettingsInv, NEW c \in calls, Settings!QuickConnectArrives(c)
    PROVE  SettingsInv'
<1>1. /\ c.kind = "quick" /\ UNCHANGED <<store, chosen, rows, active>>
      /\ c.answer \in {"ok", "refused", "failed"}
  BY DEF Settings!QuickConnectArrives, Settings!server, Settings!shown
<1>2. DOMAIN store' = Providers /\ DOMAIN rows' = Providers
  BY <1>1 DEF SettingsInv
<1>3. CASE c.answer = "ok"
  <2>1. PICK others : others = calls \ {c}
    OBVIOUS
  <2>2. /\ phase' = "loading" /\ calls' = others \cup {Settings!Reload}
        /\ unsure' = Settings!Doubts(Settings!Reload, others)
    BY <1>3, <2>1 DEF Settings!QuickConnectArrives
  <2>3. \A e \in others :
              /\ e.kind \in Kinds
              /\ e.kind \in {"save", "remove", "quick"} => e.provider \in Providers
              /\ e.kind = "reload" /\ (e.rows # <<>> \/ e.answer = "ok") => DOMAIN e.rows = Providers
    BY <2>1 DEF SettingsInv
  <2>4. \A e \in others : Settings!Touched(e) \subseteq unsure'
    BY <2>2, <2>3, ReloadTouches
  <2>5. PICK r : r = Settings!Reload
    OBVIOUS
  <2> QED
    BY <1>2, <2>2, <2>3, <2>4, <2>5, ReloadIs, LoadsAgain
<1>4. CASE c.answer = "failed"
  BY <1>1, <1>4, NothingShown DEF Settings!QuickConnectArrives, Kinds
<1>5. CASE c.answer = "refused"
  <2>1. calls' = calls \ {c} /\ unsure' = unsure \cup {c.provider} /\ phase' = phase
    BY <1>5 DEF Settings!QuickConnectArrives
  <2>2. Settings!Touched(c) = {c.provider, "active"}
    BY <1>1, TouchedBy
  <2>3. \A x : Same(x)
    BY <1>1 DEF Same
  <2>4. "active" \notin unsure => active = chosen
    BY <1>1, <1>5, <2>2 DEF SettingsInv, Promised, Current
  <2>5. \A x \in Settings!Touched(c) \ unsure' : Current(x)'
    BY <1>1, <2>1, <2>2, <2>4 DEF Current
  <2> QED
    BY <1>2, <2>1, <2>3, <2>5, CallArrives
<1> QED
  BY <1>1, <1>3, <1>4, <1>5

LEMMA SettingsUnchanged ==
    ASSUME SettingsInv, UNCHANGED settingsVars
    PROVE  SettingsInv'
<1>1. UNCHANGED <<store, chosen, rows, active, phase, calls, unsure>>
  BY DEF settingsVars
<1>2. SettingsAreCurrent'
  BY <1>1 DEF SettingsInv, SettingsAreCurrent, Settings!SettingsAreCurrent
<1>3. \A x : Same(x)
  BY <1>1 DEF Same
<1>4. \A c \in calls : \A x \in Settings!Touched(c) \ unsure : Promised(c, x)'
  BY <1>3, PromiseKept DEF SettingsInv
<1> QED
  BY <1>1, <1>2, <1>4 DEF SettingsInv

\* What the dialog shows is what the bridge has, for any number of providers and of calls
\* under way, with the exceptions that the property names (ProviderSettings.vue 134-377,
\* server.ts and config.ts of the bridge).
THEOREM SettingsAreCurrentHolds == Spec => []SettingsAreCurrent
<1>1. Init => SettingsInv
  BY SettingsStart
<1>2. SettingsInv /\ [Next]_vars => SettingsInv'
  <2> SUFFICES ASSUME SettingsInv, [Next]_vars
               PROVE  SettingsInv'
    OBVIOUS
  <2>1. CASE UNCHANGED settingsVars
    BY <2>1, SettingsUnchanged
  <2>2. CASE Settings!Next
    BY <2>2, UserPreserves, ServePreserves, ServeReloadPreserves, CallFailsPreserves,
       QuickConnectSavesPreserves, QuickConnectEndsPreserves, ReloadArrivesPreserves,
       ButtonAnsweredPreserves, QuickConnectArrivesPreserves DEF Settings!Next
  <2>3. CASE UNCHANGED vars
    BY <2>1, <2>3 DEF vars
  <2> QED
    BY <2>1, <2>2, <2>3 DEF Next
<1>3. SettingsInv => SettingsAreCurrent
  BY DEF SettingsInv
<1> QED
  BY <1>1, <1>2, <1>3, PTL DEF Spec

-----------------------------------------------------------------------------
(* The history *)

\* The tab that is open, as the server would give it now.
Entries ==
    LET tab == History!Tab(archived) IN [k \in DOMAIN tab |-> History!Entry(tab[k])]

Beginning(list) ==
    /\ list \in Seq({Entries[k] : k \in DOMAIN Entries})
    /\ Len(list) <= Len(Entries)
    /\ \A k \in 1 .. Len(list) : list[k] = Entries[k]

CutEnd(p) == IF p.offset + PageSize < Len(Entries) THEN p.offset + PageSize ELSE Len(Entries)

\* A page of the open tab, as the server would cut it now.
CutNow(p) ==
    /\ p.more <=> CutEnd(p) < Len(Entries)
    /\ p.more => p.next = CutEnd(p)
    /\ p.jobs = [k \in 1 .. (IF CutEnd(p) > p.offset THEN CutEnd(p) - p.offset ELSE 0) |->
                    Entries[p.offset + k]]

\* A page is for the tab that is open, and goes on where the list ends.
InPlace(p) ==
    /\ p.tab = archived
    /\ IF p.reset THEN loading /\ p.offset = 0
       ELSE ~loading /\ loadingMore /\ hasMore /\ p.offset = cursor

\* The list is one that the server would give now, as far as it goes.
ListNow ==
    /\ \A p \in pages : p.answer = "ok" => CutNow(p)
    /\ ~loading => /\ Beginning(listed)
                   /\ hasMore => cursor = Len(listed)
                   /\ failed \/ loadingMore \/ (hasMore <=> Len(listed) < Len(Entries))

\* One page is under way at a time, unless two overlapped; and no change was answered
\* since the jobs moved last.
HistoryInv ==
    /\ IsFiniteSet(filed)
    /\ \A p \in pages : p.answer \in {"none", "ok", "failed"}
    /\ pages = {} => ~loading /\ ~loadingMore
    /\ ~mixed => /\ \A p, q \in pages : p = q
                 /\ \A p \in pages : InPlace(p)
                 /\ loading => listed = <<>> /\ cursor = 0
    /\ \A e \in edits : e.kind \in {"star", "archive"} /\ e.answer \in {"none", "ok", "failed"}
    /\ ~moved => \A e \in edits : e.answer # "ok"
    /\ ~mixed /\ ~moved => ListNow

LEMMA SameCardinality ==
    ASSUME NEW S
    PROVE  History!Cardinality(S) = Cardinality(S)
  BY DEF Cardinality, History!Cardinality

\* As long as what is sorted.
LEMMA SortedLength ==
    ASSUME NEW earlier, IsFiniteSet(DOMAIN earlier)
    PROVE  /\ Len(History!Sorted(earlier)) = Cardinality(DOMAIN earlier)
           /\ DOMAIN History!Sorted(earlier) = 1 .. Cardinality(DOMAIN earlier)
           /\ Cardinality(DOMAIN earlier) \in Nat
<1>1. PICK n \in Nat : n = Cardinality(DOMAIN earlier)
  BY FS_CardinalityType
<1>2. PICK f : History!Sorted(earlier) = [k \in 1 .. Cardinality(DOMAIN earlier) |-> f[k]]
  <2>1. DOMAIN History!Sorted(earlier) = 1 .. Cardinality(DOMAIN earlier)
    BY SameCardinality DEF History!Sorted
  <2>2. History!Sorted(earlier) =
          [k \in DOMAIN History!Sorted(earlier) |-> History!Sorted(earlier)[k]]
    BY DEF History!Sorted
  <2>3. PICK s : s = History!Sorted(earlier)
    OBVIOUS
  <2> QED
    BY <2>1, <2>2, <2>3
<1>3. PICK s : s = History!Sorted(earlier)
  OBVIOUS
<1>4. s = [k \in 1 .. n |-> f[k]]
  BY <1>1, <1>2, <1>3
<1>5. Len(s) = n /\ DOMAIN s = 1 .. n
  BY <1>4
<1> QED
  BY <1>1, <1>3, <1>5

LEMMA NothingSorted ==
    ASSUME NEW earlier, DOMAIN earlier = {}
    PROVE  DOMAIN History!Sorted(earlier) = {}
  BY SortedLength, FS_EmptySet

LEMMA EntriesAre ==
    ASSUME IsFiniteSet(filed)
    PROVE  /\ Len(Entries) \in Nat /\ DOMAIN Entries = 1 .. Len(Entries)
           /\ Len(History!Tab(archived)) = Len(Entries)
           /\ \A k \in 1 .. Len(Entries) : Entries[k] = History!Entry(History!Tab(archived)[k])
<1>1. PICK jobs : jobs = IF archived THEN filed ELSE Jobs \ filed
  OBVIOUS
<1>2. IsFiniteSet(jobs)
  BY <1>1, PanelsAssumption, FS_Difference
<1>3. PICK earlier : DOMAIN earlier = jobs /\ History!Tab(archived) = History!Sorted(earlier)
  BY <1>1 DEF History!Tab
<1>4. PICK tab : tab = History!Tab(archived)
  OBVIOUS
<1>5. PICK n \in Nat : DOMAIN tab = 1 .. n /\ Len(tab) = n
  BY <1>2, <1>3, <1>4, SortedLength
<1>6. Entries = [k \in 1 .. n |-> History!Entry(tab[k])]
  BY <1>4, <1>5 DEF Entries
<1>7. Len(Entries) = n /\ DOMAIN Entries = 1 .. n
  BY <1>6
<1> QED
  BY <1>4, <1>5, <1>6, <1>7

LEMMA SameTab ==
    ASSUME UNCHANGED <<starred, filed, updated>>, NEW a
    PROVE  History!Tab(a)' = History!Tab(a)
  BY DEF History!Tab, History!Sorted

LEMMA SameEntries ==
    ASSUME UNCHANGED <<starred, filed, updated, archived>>
    PROVE  Entries' = Entries
<1>1. PICK a : a = archived
  OBVIOUS
<1>2. History!Tab(archived)' = History!Tab(archived)
  BY <1>1, SameTab
<1> QED
  BY <1>2 DEF Entries, History!Entry

LEMMA NoneRestarred ==
    ASSUME NEW e \in edits, listed = <<>>
    PROVE  History!Restarred(e) = <<>>
<1>1. DOMAIN listed = {}
  OBVIOUS
<1>2. PICK earlier, marked :
         /\ DOMAIN earlier = DOMAIN listed
         /\ History!Restarred(e) =
              [k \in DOMAIN History!Sorted(earlier) |-> marked[History!Sorted(earlier)[k]]]
  <2>1. DEFINE marked == [k \in DOMAIN listed |-> IF e.kept /\ listed[k].job = e.job
                                                  THEN [listed[k] EXCEPT !.starred = e.value]
                                                  ELSE listed[k]]
               Before(h, k) == IF marked[h].starred # marked[k].starred THEN marked[h].starred
                               ELSE marked[h].updated > marked[k].updated
               earlier == [k \in DOMAIN listed |->
                             {h \in DOMAIN listed : Before(h, k) \/ (h < k /\ ~Before(k, h))}]
  <2>2. DOMAIN earlier = DOMAIN listed
    OBVIOUS
  <2>3. History!Restarred(e) =
          [k \in DOMAIN History!Sorted(earlier) |-> marked[History!Sorted(earlier)[k]]]
    BY DEF History!Restarred
  <2> HIDE DEF earlier, marked
  <2> QED
    BY <2>2, <2>3
<1>3. DOMAIN History!Sorted(earlier) = {}
  BY <1>1, <1>2, NothingSorted
<1> QED
  BY <1>2, <1>3

LEMMA NoneWithout ==
    ASSUME NEW j, listed = <<>>
    PROVE  History!Without(j) = <<>>
<1>1. {k \in DOMAIN listed : listed[k].job # j} = {}
  OBVIOUS
<1>2. PICK earlier : /\ DOMAIN earlier = {}
                     /\ History!Without(j) =
                          [k \in DOMAIN History!Sorted(earlier) |-> listed[History!Sorted(earlier)[k]]]
  BY <1>1 DEF History!Without
<1>3. DOMAIN History!Sorted(earlier) = {}
  BY <1>1, <1>2, NothingSorted
<1> QED
  BY <1>2, <1>3

\* A part of what can be listed.
LEMMA PartIsList ==
    ASSUME NEW E, NEW S, NEW m \in Nat, NEW d \in Nat, \A k \in 1 .. d : E[m + k] \in S
    PROVE  /\ [k \in 1 .. d |-> E[m + k]] \in Seq(S)
           /\ Len([k \in 1 .. d |-> E[m + k]]) = d
  OBVIOUS

\* A list and what follows it.
LEMMA Grown ==
    ASSUME NEW E, NEW S, NEW s \in Seq(S), \A k \in 1 .. Len(s) : s[k] = E[k],
           NEW t \in Seq(S), \A k \in 1 .. Len(t) : t[k] = E[Len(s) + k]
    PROVE  /\ s \o t \in Seq(S) /\ Len(s \o t) = Len(s) + Len(t)
           /\ \A k \in 1 .. Len(s) + Len(t) : (s \o t)[k] = E[k]
<1>1. s \o t \in Seq(S) /\ Len(s \o t) = Len(s) + Len(t)
  OBVIOUS
<1>2. PICK m \in Nat, d \in Nat : m = Len(s) /\ d = Len(t)
  OBVIOUS
<1>3. ASSUME NEW k \in 1 .. m + d PROVE (s \o t)[k] = E[k]
  <2>1. (s \o t)[k] = IF k <= m THEN s[k] ELSE t[k - m]
    BY <1>2, ConcatProperties
  <2>2. CASE k <= m
    BY <1>2, <2>1, <2>2
  <2>3. CASE ~(k <= m)
    <3>1. k - m \in 1 .. Len(t) /\ m + (k - m) = k
      BY <1>2, <2>3
    <3>2. t[k - m] = E[Len(s) + (k - m)]
      BY <3>1
    <3> QED
      BY <1>2, <2>1, <2>3, <3>1, <3>2
  <2> QED
    BY <2>2, <2>3
<1> QED
  BY <1>1, <1>2, <1>3

\* A page that goes on where a beginning ends makes a longer one.
LEMMA PageExtends ==
    ASSUME IsFiniteSet(filed), NEW s, Beginning(s), NEW p, p.offset = Len(s), CutNow(p)
    PROVE  /\ Beginning(s \o p.jobs)
           /\ p.more => p.next = Len(s \o p.jobs)
           /\ p.more <=> Len(s \o p.jobs) < Len(Entries)
<1>1. PICK n \in Nat : n = Len(Entries) /\ DOMAIN Entries = 1 .. n
  BY EntriesAre
<1>2. PICK E : E = Entries
  OBVIOUS
<1>3. PICK S : S = {E[k] : k \in 1 .. n}
  OBVIOUS
<1>4. s \in Seq(S) /\ Len(s) \in Nat /\ Len(s) <= n /\ \A k \in 1 .. Len(s) : s[k] = E[k]
  BY <1>1, <1>2, <1>3 DEF Beginning
<1>5. PICK to \in Nat : to = CutEnd(p) /\ Len(s) <= to /\ to <= n
  BY <1>1, <1>4, PanelsAssumption DEF CutEnd
<1>6. PICK t \in Seq(S) : /\ t = p.jobs /\ Len(t) = to - Len(s)
                          /\ \A k \in 1 .. Len(t) : t[k] = E[Len(s) + k]
  <2>1. PICK m \in Nat, d \in Nat : m = Len(s) /\ d = to - m
    BY <1>4, <1>5
  <2>2. d = IF to > p.offset THEN to - p.offset ELSE 0
    BY <1>5, <2>1
  <2>3. p.jobs = [k \in 1 .. d |-> E[m + k]]
    BY <1>2, <1>5, <2>1, <2>2 DEF CutNow
  <2>4. \A k \in 1 .. d : E[m + k] \in S
    BY <1>3, <1>5, <2>1
  <2>5. p.jobs \in Seq(S) /\ Len(p.jobs) = d
    BY <2>3, <2>4, PartIsList
  <2>6. \A k \in 1 .. d : p.jobs[k] = E[m + k]
    BY <2>3
  <2> QED
    BY <2>1, <2>5, <2>6
<1>7. /\ s \o p.jobs \in Seq(S) /\ Len(s \o p.jobs) = to
      /\ \A k \in 1 .. to : (s \o p.jobs)[k] = E[k]
  <2>1. /\ s \o t \in Seq(S) /\ Len(s \o t) = Len(s) + Len(t)
        /\ \A k \in 1 .. Len(s) + Len(t) : (s \o t)[k] = E[k]
    BY <1>4, <1>6, Grown
  <2>2. Len(s) + Len(t) = to
    BY <1>4, <1>6
  <2> QED
    BY <1>6, <2>1, <2>2
<1>8. Beginning(s \o p.jobs)
  BY <1>1, <1>2, <1>3, <1>5, <1>7 DEF Beginning
<1> QED
  BY <1>1, <1>5, <1>7, <1>8 DEF CutNow

LEMMA NothingBegins ==
    ASSUME IsFiniteSet(filed)
    PROVE  Beginning(<<>>) /\ Len(<<>>) = 0
  BY EntriesAre DEF Beginning

LEMMA FirstPage ==
    ASSUME IsFiniteSet(filed), NEW p, p.offset = 0, CutNow(p)
    PROVE  /\ Beginning(p.jobs)
           /\ p.more => p.next = Len(p.jobs)
           /\ p.more <=> Len(p.jobs) < Len(Entries)
<1>1. /\ Beginning(<<>> \o p.jobs)
      /\ p.more => p.next = Len(<<>> \o p.jobs)
      /\ p.more <=> Len(<<>> \o p.jobs) < Len(Entries)
  BY NothingBegins, PageExtends
<1>2. PICK n : p.jobs = [k \in 1 .. n |-> Entries[p.offset + k]] /\ n \in Int
  BY EntriesAre, PanelsAssumption DEF CutNow, CutEnd
<1>3. <<>> \o p.jobs = p.jobs
  BY <1>2
<1> QED
  BY <1>1, <1>3

\* What the server cuts is the page of the tab as it is.
LEMMA CutIsNow ==
    ASSUME IsFiniteSet(filed), NEW p, p.tab = archived, p.offset \in Nat
    PROVE  /\ History!Cut(p).answer = "ok" /\ CutNow(History!Cut(p))
           /\ History!Cut(p).reset = p.reset /\ History!Cut(p).tab = p.tab
           /\ History!Cut(p).offset = p.offset
<1>1. PICK n \in Nat : /\ n = Len(Entries) /\ Len(History!Tab(archived)) = n
                       /\ \A k \in 1 .. n : Entries[k] = History!Entry(History!Tab(archived)[k])
  BY EntriesAre
<1>2. PICK to \in Nat : to = CutEnd(p) /\ to <= n
  BY <1>1, PanelsAssumption DEF CutEnd
<1>3. PICK m \in Nat : m = IF to > p.offset THEN to - p.offset ELSE 0
  BY <1>2
<1>4. PICK q : q = History!Cut(p)
  OBVIOUS
<1>5. /\ q.answer = "ok" /\ q.reset = p.reset /\ q.tab = p.tab /\ q.offset = p.offset
      /\ q.more = (to < n) /\ q.next = (IF to < n THEN to ELSE 0)
      /\ q.jobs = [k \in 1 .. m |-> History!Entry(History!Tab(archived)[p.offset + k])]
  BY <1>1, <1>2, <1>3, <1>4 DEF History!Cut, CutEnd
<1>6. \A k \in 1 .. m : Entries[p.offset + k] = History!Entry(History!Tab(archived)[p.offset + k])
  BY <1>1, <1>2, <1>3
<1>7. q.jobs = [k \in 1 .. m |-> Entries[p.offset + k]]
  BY <1>5, <1>6
<1>8. CutEnd(q) = to
  BY <1>2, <1>5 DEF CutEnd
<1>9. CutNow(q)
  BY <1>1, <1>3, <1>5, <1>7, <1>8 DEF CutNow
<1> QED
  BY <1>4, <1>5, <1>9

LEMMA HistoryStarts == Init => HistoryInv
<1> SUFFICES ASSUME Init PROVE HistoryInv
  OBVIOUS
<1>1. History!Init
  BY DEF Init
<1>2. PICK p : p = History!Page(TRUE, 0, FALSE)
  OBVIOUS
<1>3. p.reset = TRUE /\ p.offset = 0 /\ p.tab = FALSE /\ p.answer = "none"
  BY <1>2 DEF History!Page
<1>4. /\ pages = {p} /\ edits = {} /\ filed = {} /\ listed = <<>> /\ cursor = 0
      /\ archived = FALSE /\ loading = TRUE
  BY <1>1, <1>2 DEF History!Init
<1> QED
  BY <1>3, <1>4, FS_EmptySet DEF HistoryInv, InPlace, ListNow

\* What the list says, where nothing of it changes.
LEMMA ListStays ==
    ASSUME ListNow, UNCHANGED <<starred, filed, updated, archived, listed, cursor, hasMore, loading>>,
           \A p \in pages' : p.answer = "ok" => p \in pages,
           failed \/ loadingMore => failed' \/ loadingMore'
    PROVE  ListNow'
  BY SameEntries DEF ListNow, Beginning, CutNow, CutEnd

\* Asking for a page: the first one of a tab, or the one that goes on.
LEMMA LoadPreserves ==
    ASSUME HistoryInv, NEW reset \in BOOLEAN, NEW tab, History!Load(reset, tab), archived' = tab,
           ~reset => hasMore /\ archived' = archived
    PROVE  HistoryInv'
<1>1. PICK p : p = History!Page(reset, IF reset THEN 0 ELSE cursor, tab)
  OBVIOUS
<1>2. /\ p.reset = reset /\ p.tab = tab /\ p.answer = "none"
      /\ p.offset = IF reset THEN 0 ELSE cursor
  BY <1>1 DEF History!Page
<1>3. /\ pages' = pages \cup {p} /\ ~failed'
      /\ mixed' <=> (pages # {} \/ (mixed /\ ~reset))
      /\ UNCHANGED <<starred, filed, updated, hasMore, moved>>
  BY <1>1 DEF History!Load, History!jobServer
<1>4. ~mixed' => pages' = {p} /\ ~loading /\ ~loadingMore /\ (mixed => reset)
  BY <1>3 DEF HistoryInv
<1>5. CASE reset
  <2>1. /\ loading' = TRUE /\ cursor' = 0 /\ listed' = <<>>
        /\ edits' = {[e EXCEPT !.kept = FALSE] : e \in edits}
    BY <1>5 DEF History!Load
  <2>2. \A e \in edits : /\ [e EXCEPT !.kept = FALSE].kind = e.kind
                         /\ [e EXCEPT !.kept = FALSE].answer = e.answer
    OBVIOUS
  <2>3. /\ \A e \in edits' : e.kind \in {"star", "archive"} /\ e.answer \in {"none", "ok", "failed"}
        /\ ~moved' => \A e \in edits' : e.answer # "ok"
    BY <1>3, <2>1, <2>2 DEF HistoryInv
  <2>4. ~mixed' => InPlace(p)' /\ ListNow'
    BY <1>2, <1>4, <1>5, <2>1 DEF InPlace, ListNow
  <2> QED
    BY <1>2, <1>3, <1>4, <2>1, <2>3, <2>4 DEF HistoryInv
<1>6. CASE ~reset
  <2>1. loadingMore' = TRUE /\ UNCHANGED <<loading, cursor, listed, edits, archived>>
    BY <1>6 DEF History!Load
  <2>2. ~mixed' => InPlace(p)'
    BY <1>2, <1>3, <1>4, <1>6, <2>1 DEF InPlace
  <2>3. ~mixed' /\ ~moved' => ListNow'
    BY <1>2, <1>3, <1>4, <1>6, <2>1, ListStays DEF HistoryInv
  <2> QED
    BY <1>2, <1>3, <1>4, <2>1, <2>2, <2>3 DEF HistoryInv
<1> QED
  BY <1>5, <1>6

LEMMA TogglePreserves ==
    ASSUME HistoryInv, NEW kind \in {"star", "archive"}, NEW entry, History!Toggle(kind, entry)
    PROVE  HistoryInv'
<1>1. /\ UNCHANGED <<starred, filed, updated, listed, archived, cursor, hasMore, loading,
                     loadingMore, failed, pages, mixed, moved>>
      /\ \A e \in edits' : e \in edits \/ (e.kind = kind /\ e.answer = "none")
  BY DEF History!Toggle, History!jobServer, History!list, History!flags
<1>2. ListNow => ListNow'
  BY <1>1, ListStays
<1> QED
  BY <1>1, <1>2 DEF HistoryInv, InPlace

\* A page takes the place of the request for it.
LEMMA PageAnswered ==
    ASSUME HistoryInv, NEW p \in pages, NEW q, pages' = (pages \ {p}) \cup {q},
           q.reset = p.reset, q.tab = p.tab, q.offset = p.offset, q.answer \in {"ok", "failed"},
           UNCHANGED <<filed, listed, archived, cursor, hasMore, loading, loadingMore, failed,
                       edits, mixed>>,
           ~moved' => \A e \in edits : e.answer # "ok",
           ~mixed /\ ~moved' => ListNow'
    PROVE  HistoryInv'
  BY DEF HistoryInv, InPlace

LEMMA ServePagePreserves ==
    ASSUME HistoryInv, NEW p \in pages, History!ServePage(p)
    PROVE  HistoryInv'
<1>1. PICK q : q = History!Cut(p)
  OBVIOUS
<1>2. /\ pages' = (pages \ {p}) \cup {q}
      /\ moved' <=> IF p.reset THEN edits # {} ELSE moved
      /\ UNCHANGED <<starred, filed, updated, listed, archived, cursor, hasMore, loading,
                     loadingMore, failed, edits, mixed>>
  BY <1>1 DEF History!ServePage, History!jobServer, History!list, History!flags
<1>3. q.reset = p.reset /\ q.tab = p.tab /\ q.offset = p.offset /\ q.answer = "ok"
  BY <1>1 DEF History!Cut
<1>4. ASSUME ~mixed, ~moved' PROVE ListNow'
  <2>1. pages' = {q} /\ InPlace(p)
    BY <1>2, <1>4 DEF HistoryInv
  <2>2. ~p.reset => ListNow
    BY <1>2, <1>4 DEF HistoryInv
  <2>3. p.tab = archived /\ p.offset \in Nat
    BY <2>1, <2>2 DEF InPlace, ListNow, Beginning
  <2>4. CutNow(q)
    BY <1>1, <2>3, CutIsNow DEF HistoryInv
  <2>5. CutNow(q)'
    BY <1>2, <2>4, SameEntries DEF CutNow, CutEnd
  <2>6. CASE p.reset
    BY <1>2, <2>1, <2>5, <2>6 DEF ListNow, InPlace
  <2>7. CASE ~p.reset
    BY <1>2, <2>1, <2>2, <2>5, <2>7, SameEntries DEF ListNow, Beginning
  <2> QED
    BY <2>6, <2>7
<1>5. ~moved' => \A e \in edits : e.answer # "ok"
  BY <1>2 DEF HistoryInv
<1> QED
  BY <1>2, <1>3, <1>4, <1>5, PageAnswered

LEMMA PageFailsPreserves ==
    ASSUME HistoryInv, NEW p \in pages, History!PageFails(p)
    PROVE  HistoryInv'
<1>1. PICK q : q = [p EXCEPT !.answer = "failed"]
  OBVIOUS
<1>2. q.reset = p.reset /\ q.tab = p.tab /\ q.offset = p.offset /\ q.answer = "failed"
  BY <1>1
<1>3. /\ pages' = (pages \ {p}) \cup {q}
      /\ UNCHANGED <<starred, filed, updated, listed, archived, cursor, hasMore, loading,
                     loadingMore, failed, edits, mixed, moved>>
  BY <1>1 DEF History!PageFails, History!jobServer, History!list, History!flags
<1>4. ListNow => ListNow'
  BY <1>2, <1>3, ListStays
<1> QED
  BY <1>2, <1>3, <1>4, PageAnswered DEF HistoryInv

\* A change moves the jobs, unless it is refused.
LEMMA ServeEditPreserves ==
    ASSUME HistoryInv, NEW e \in edits, History!ServeEdit(e)
    PROVE  HistoryInv'
<1>1. /\ UNCHANGED <<listed, archived, cursor, hasMore, loading, loadingMore, failed, pages, mixed>>
      /\ e.kind \in {"star", "archive"}
  BY DEF History!ServeEdit, History!list, History!flags, HistoryInv
<1>2. CASE edits' = (edits \ {e}) \cup {[e EXCEPT !.answer = "ok"]} /\ moved' = TRUE
           /\ (filed' = filed \/ filed' = filed \cup {e.job} \/ filed' = filed \ {e.job})
  <2>1. [e EXCEPT !.answer = "ok"].kind = e.kind /\ [e EXCEPT !.answer = "ok"].answer = "ok"
    OBVIOUS
  <2>2. IsFiniteSet(filed')
    <3>1. IsFiniteSet(filed \cup {e.job}) /\ IsFiniteSet(filed \ {e.job}) /\ IsFiniteSet(filed)
      BY FS_AddElement, FS_RemoveElement DEF HistoryInv
    <3> QED
      BY <1>2, <3>1
  <2> QED
    BY <1>1, <1>2, <2>1, <2>2 DEF HistoryInv, InPlace
<1>3. CASE edits' = (edits \ {e}) \cup {[e EXCEPT !.answer = "failed"]}
           /\ UNCHANGED <<starred, filed, updated, moved>>
  <2>1. /\ [e EXCEPT !.answer = "failed"].kind = e.kind
        /\ [e EXCEPT !.answer = "failed"].answer = "failed"
    OBVIOUS
  <2>2. ListNow => ListNow'
    BY <1>1, <1>3, ListStays
  <2> QED
    BY <1>1, <1>3, <2>1, <2>2 DEF HistoryInv, InPlace
<1> QED
  BY <1>1, <1>2, <1>3 DEF History!ServeEdit, History!jobServer

LEMMA JobMovesPreserves ==
    ASSUME HistoryInv, NEW j \in Jobs, History!JobMoves(j)
    PROVE  HistoryInv'
  BY DEF HistoryInv, InPlace, History!JobMoves, History!list, History!flags

LEMMA PageArrivesPreserves ==
    ASSUME HistoryInv, NEW p \in pages, History!PageArrives(p)
    PROVE  HistoryInv'
<1>1. /\ ~loading' /\ ~loadingMore' /\ pages' = pages \ {p}
      /\ UNCHANGED <<starred, filed, updated, archived, edits, mixed, moved>>
      /\ p.answer \in {"ok", "failed"}
  BY DEF History!PageArrives, History!jobServer, HistoryInv
<1>2. IsFiniteSet(filed) /\ Entries' = Entries
  BY <1>1, SameEntries DEF HistoryInv
<1>3. ASSUME ~mixed, ~moved PROVE ListNow'
  <2>1. pages' = {} /\ InPlace(p) /\ ListNow
    BY <1>1, <1>3 DEF HistoryInv
  <2>2. CASE p.answer = "ok"
    <3>1. /\ listed' = (IF p.reset THEN p.jobs ELSE listed \o p.jobs)
          /\ cursor' = p.next /\ hasMore' = p.more
      BY <2>2 DEF History!PageArrives
    <3>2. CutNow(p)
      BY <2>1, <2>2 DEF ListNow
    <3>3. /\ Beginning(listed')
          /\ p.more => p.next = Len(listed')
          /\ p.more <=> Len(listed') < Len(Entries)
      <4>1. CASE p.reset
        BY <1>2, <2>1, <3>1, <3>2, <4>1, FirstPage DEF InPlace
      <4>2. CASE ~p.reset
        BY <1>2, <2>1, <3>1, <3>2, <4>2, PageExtends DEF InPlace, ListNow
      <4> QED
        BY <4>1, <4>2
    <3> QED
      BY <1>2, <2>1, <3>1, <3>3 DEF ListNow, Beginning
  <2>3. CASE p.answer = "failed"
    <3>1. failed' /\ UNCHANGED <<listed, cursor, hasMore>>
      BY <2>3 DEF History!PageArrives
    <3>2. Beginning(listed) /\ (hasMore => cursor = Len(listed))
      BY <1>2, <1>3, <2>1, NothingBegins DEF ListNow, HistoryInv
    <3> QED
      BY <1>2, <2>1, <3>1, <3>2 DEF ListNow, Beginning
  <2> QED
    BY <1>1, <2>2, <2>3
<1>4. ~mixed => pages' = {}
  BY <1>1 DEF HistoryInv
<1> QED
  BY <1>1, <1>3, <1>4 DEF HistoryInv

\* Nothing can be starred or removed in a list that is still loading.
LEMMA EditArrivesPreserves ==
    ASSUME HistoryInv, NEW e \in edits, History!EditArrives(e)
    PROVE  HistoryInv'
<1>1. /\ edits' = edits \ {e} /\ e.answer \in {"ok", "failed"}
      /\ UNCHANGED <<starred, filed, updated, archived, cursor, hasMore, loading, loadingMore,
                     failed, pages, mixed, moved>>
  BY DEF History!EditArrives, History!jobServer, History!flags, HistoryInv
<1>2. ~moved => listed' = listed
  BY <1>1 DEF History!EditArrives, HistoryInv
<1>3. listed = <<>> => listed' = <<>>
  BY NoneRestarred, NoneWithout DEF History!EditArrives
<1>4. ~mixed /\ ~moved => ListNow'
  BY <1>1, <1>2, ListStays DEF HistoryInv
<1> QED
  BY <1>1, <1>3, <1>4 DEF HistoryInv, InPlace

LEMMA HistoryUnchanged ==
    ASSUME HistoryInv, UNCHANGED historyVars
    PROVE  HistoryInv'
<1>1. ListNow => ListNow'
  BY ListStays DEF historyVars
<1> QED
  BY <1>1 DEF historyVars, HistoryInv, InPlace

LEMMA HistoryIs == HistoryInv => HistoryIsAPrefix
<1> SUFFICES ASSUME HistoryInv, ~mixed, ~moved, ~loading, ~failed
             PROVE  LET tab == History!Tab(archived) IN
                    /\ Len(listed) <= Len(tab)
                    /\ \A k \in DOMAIN listed : listed[k] = History!Entry(tab[k])
                    /\ loadingMore \/ (hasMore <=> Len(listed) < Len(tab))
  BY DEF HistoryIsAPrefix, History!HistoryIsAPrefix
<1>1. ListNow /\ IsFiniteSet(filed)
  BY DEF HistoryInv
<1>2. DOMAIN listed = 1 .. Len(listed)
  BY <1>1 DEF ListNow, Beginning
<1>3. Len(listed) \in Nat /\ Len(Entries) \in Nat
  BY <1>1, EntriesAre DEF ListNow, Beginning
<1> QED
  BY <1>1, <1>2, <1>3, EntriesAre DEF ListNow, Beginning

\* The list is the beginning of the tab, in the server's order, for any number of jobs, of
\* pages and of any size, with the exceptions that the property names (JobHistory.vue 65-124,
\* web_jobs.py 813-826).
THEOREM HistoryIsAPrefixHolds == Spec => []HistoryIsAPrefix
<1>1. Init => HistoryInv
  BY HistoryStarts
<1>2. HistoryInv /\ [Next]_vars => HistoryInv'
  <2> SUFFICES ASSUME HistoryInv, [Next]_vars
               PROVE  HistoryInv'
    OBVIOUS
  <2>1. CASE UNCHANGED historyVars
    BY <2>1, HistoryUnchanged
  <2>2. CASE History!Next
    <3>1. ASSUME NEW tab \in BOOLEAN, History!SwitchArchive(tab) PROVE HistoryInv'
      BY <3>1, LoadPreserves DEF History!SwitchArchive
    <3>2. PICK open : open = archived
      OBVIOUS
    <3>3. ASSUME History!LoadMore PROVE HistoryInv'
      BY <3>2, <3>3, LoadPreserves DEF History!LoadMore
    <3>4. ASSUME History!LoadAgain PROVE HistoryInv'
      BY <3>2, <3>4, LoadPreserves DEF History!LoadAgain
    <3> QED
      BY <2>2, <3>1, <3>3, <3>4, TogglePreserves, ServePagePreserves, PageFailsPreserves,
         PageArrivesPreserves, ServeEditPreserves, EditArrivesPreserves, JobMovesPreserves
         DEF History!Next
  <2>3. CASE UNCHANGED vars
    BY <2>1, <2>3 DEF vars
  <2> QED
    BY <2>1, <2>2, <2>3 DEF Next
<1>3. HistoryInv => HistoryIsAPrefix
  BY HistoryIs
<1> QED
  BY <1>1, <1>2, <1>3, PTL DEF Spec

-----------------------------------------------------------------------------
(* The provider and model of a job *)

Mounting == {t \in tasks : t.kind \in {"providers", "mount"}}
Listing == {t \in tasks : t.kind # "providers"}

Fits(s) == s.model = None \/ s.model[1] = s.provider

\* The form waits for one thing at a time while it is being mounted, and until the page
\* changes the settings under it: what is listed, and what is being listed, is of the
\* provider it shows.
FormInv ==
    /\ form = Form!Chosen(form.provider, form.model)
    /\ \A t \in tasks : t.kind \in {"providers", "mount", "change", "watch"}
    /\ formLoading <=> Mounting # {}
    /\ \A t1, t2 \in Mounting : t1 = t2
    /\ formLoading => \A t \in tasks : t.kind # "change"
    /\ (\E t \in tasks : t.kind = "providers") => ~known
    /\ ~known => models = {} /\ Listing = {}
    /\ \A t \in Mounting : Fits(t.active)
    /\ ~crossed =>
         /\ Fits(form) /\ Fits(settings)
         /\ formLoading => form.model = None
         /\ models \subseteq Form!ModelsOf(form.provider)
         /\ \A t \in Listing : modelLoading /\ t.provider = form.provider
         /\ \A t1, t2 \in Listing : t1 = t2
    /\ SubmittedAsShown

LEMMA FormStarts == Init => FormInv
<1> SUFFICES ASSUME Init PROVE FormInv
  OBVIOUS
<1>1. Form!Init
  BY DEF Init
<1>2. Mounting = tasks /\ Listing = {}
  BY <1>1 DEF Form!Init, Form!Task, Mounting, Listing
<1>3. form.provider = None /\ form.model = None /\ settings.model = None
  BY <1>1 DEF Form!Init, Form!Chosen
<1>4. \A t \in tasks : t.kind = "providers" /\ t.active.model = None
  BY <1>1 DEF Form!Init, Form!Task, Form!Chosen
<1> QED
  BY <1>1, <1>2, <1>3, <1>4
     DEF Form!Init, FormInv, Fits, SubmittedAsShown, Form!SubmittedAsShown, Form!Chosen

\* The model taken for a provider is one of that provider, whatever is listed for it.
LEMMA DefaultFits ==
    ASSUME NEW p, NEW list, list \subseteq Form!ModelsOf(p)
    PROVE  \/ Form!Or(Form!DefaultOf(p), Form!FirstOf(list)) = None
           \/ Form!Or(Form!DefaultOf(p), Form!FirstOf(list))[1] = p
<1>1. Form!ModelsOf(p) = {<<p, 1>>, <<p, 2>>}
  BY DEF Form!ModelsOf
<1>2. ASSUME list # {} PROVE Form!FirstOf(list) \in list
  <2>1. CASE <<p, 1>> \in list
    <3>1. \A k \in list : <<p, 1>>[2] <= k[2]
      BY <1>1
    <3> QED
      BY <1>2, <2>1, <3>1 DEF Form!FirstOf
  <2>2. CASE <<p, 1>> \notin list
    <3>1. <<p, 2>> \in list /\ \A k \in list : <<p, 2>>[2] <= k[2]
      BY <1>1, <1>2, <2>2
    <3> QED
      BY <1>2, <3>1 DEF Form!FirstOf
  <2> QED
    BY <2>1, <2>2
<1>3. Form!FirstOf(list) = None \/ Form!FirstOf(list)[1] = p
  BY <1>1, <1>2 DEF Form!FirstOf
<1>4. Form!DefaultOf(p) = None \/ Form!DefaultOf(p)[1] = p
  BY DEF Form!DefaultOf
<1> QED
  BY <1>3, <1>4 DEF Form!Or

\* What loadModels does to what is waiting.
LEMMA LoadModelsAsks ==
    ASSUME NEW rest, NEW task, task.kind # "providers", Form!LoadModels(rest, task)
    PROVE  /\ models' = {}
           /\ \/ task.provider = None /\ tasks' = rest /\ modelLoading' = modelLoading
              \/ task.provider # None /\ tasks' = rest \cup {task} /\ modelLoading' = TRUE
  BY DEF Form!LoadModels

LEMMA TaskIsTask ==
    ASSUME NEW kind, NEW p
    PROVE  /\ Form!Task(kind, p).kind = kind /\ Form!Task(kind, p).provider = p
           /\ Form!Task(kind, p).active.model = None
  BY DEF Form!Task, Form!Chosen

\* Another provider is chosen while nothing is waiting for models, unless the page
\* interfered.
LEMMA ChooseProviderPreserves ==
    ASSUME FormInv, NEW p \in Providers \cup {None}, Form!ChooseProvider(p)
    PROVE  FormInv'
<1>1. DEFINE task == Form!Task("change", p)
<1>2. task.kind = "change" /\ task.provider = p
  BY TaskIsTask
<1>3. /\ models' = {}
      /\ \/ p = None /\ tasks' = tasks /\ modelLoading' = modelLoading
         \/ p # None /\ tasks' = tasks \cup {task} /\ modelLoading' = TRUE
  BY <1>2, LoadModelsAsks DEF Form!ChooseProvider
<1>4. form' = Form!Chosen(p, None) /\ form'.provider = p /\ form'.model = None
  BY DEF Form!ChooseProvider, Form!Chosen
<1>5. /\ ~formLoading /\ ~modelLoading
      /\ p = None \/ known
      /\ IF p = None THEN settings' = form' ELSE settings' = settings
      /\ UNCHANGED <<known, formLoading, crossed>>
  BY DEF Form!ChooseProvider, Form!Enabled, Form!EmitSettings
<1>6. Mounting' = {} /\ Listing' = IF p = None THEN Listing ELSE Listing \cup {task}
  BY <1>2, <1>3, <1>5 DEF Mounting, Listing, FormInv
<1>7. ~crossed => Listing = {}
  BY <1>5 DEF FormInv
<1>8. SubmittedAsShown'
  BY <1>2, <1>3, <1>4, <1>5 DEF FormInv, Fits, SubmittedAsShown, Form!SubmittedAsShown
<1>9. \A t \in tasks' : t.kind \in {"providers", "mount", "change", "watch"}
  BY <1>2, <1>3 DEF FormInv
<1>10. \A t \in tasks' : t.kind # "providers"
  BY <1>6, <1>9 DEF Mounting
<1>11. ~known => p = None
  BY <1>5
<1> QED
  BY <1>2, <1>3, <1>4, <1>5, <1>6, <1>7, <1>8, <1>9, <1>10, <1>11 DEF FormInv, Fits

LEMMA ChooseModelPreserves ==
    ASSUME FormInv, NEW m \in models \cup {<<form.provider, 0>>, None}, Form!ChooseModel(m)
    PROVE  FormInv'
  BY DEF FormInv, Fits, SubmittedAsShown, Form!SubmittedAsShown, Form!ChooseModel,
     Form!Enabled, Form!EmitSettings, Form!ModelsOf, Form!Chosen, Mounting, Listing

LEMMA AllSettingsFit ==
    ASSUME NEW s \in Form!AllSettings
    PROVE  Fits(s) /\ s = Form!Chosen(s.provider, s.model)
<1>1. CASE \E p \in Providers : \E m \in Form!ModelsOf(p) \cup {<<p, 0>>, None} :
              s = Form!Chosen(p, m)
  BY <1>1 DEF Form!ModelsOf, Form!Chosen, Fits
<1>2. CASE \E m \in {<<None, 0>>, None} : s = Form!Chosen(None, m)
  BY <1>2 DEF Form!Chosen, Fits
<1> QED
  BY <1>1, <1>2 DEF Form!AllSettings

\* The page sets settings that fit; they cross what is waiting.
LEMMA PageSetsPreserves ==
    ASSUME FormInv, NEW s \in Form!AllSettings, Form!PageSets(s)
    PROVE  FormInv'
<1>1. DEFINE task == Form!Task("watch", s.provider)
<1>2. task.kind = "watch" /\ task.provider = s.provider
  BY TaskIsTask
<1>3. /\ settings' = s /\ form' = s
      /\ UNCHANGED <<known, formLoading>>
      /\ crossed' = (tasks # {} \/ (crossed /\ s.provider = form.provider))
  BY DEF Form!PageSets
<1>4. CASE s.provider # form.provider /\ known
  <2>1. /\ models' = {}
        /\ \/ s.provider = None /\ tasks' = tasks /\ modelLoading' = modelLoading
           \/ s.provider # None /\ tasks' = tasks \cup {task} /\ modelLoading' = TRUE
    BY <1>2, <1>4, LoadModelsAsks DEF Form!PageSets
  <2>2. Mounting' = Mounting
    BY <1>2, <2>1 DEF Mounting
  <2>3. \A t \in Listing' : t \in Listing \/ (t = task /\ modelLoading')
    BY <2>1 DEF Listing
  <2>4. ~crossed' => tasks = {} /\ Listing = {} /\ Mounting = {}
    BY <1>3 DEF Listing, Mounting
  <2>5. \A t \in tasks' : t \in tasks \/ t = task
    BY <2>1
  <2> QED
    BY <1>2, <1>3, <1>4, <2>1, <2>2, <2>3, <2>4, <2>5, AllSettingsFit
       DEF FormInv, Fits, SubmittedAsShown, Form!SubmittedAsShown
<1>5. CASE ~(s.provider # form.provider /\ known)
  <2>1. UNCHANGED <<models, modelLoading, tasks>>
    BY <1>5 DEF Form!PageSets
  <2>2. UNCHANGED <<Mounting, Listing>>
    BY <2>1 DEF Mounting, Listing
  <2>3. models = {} \/ s.provider = form.provider
    BY <1>5 DEF FormInv
  <2>4. ~crossed' => tasks = {} /\ Listing = {} /\ Mounting = {}
    BY <1>3 DEF Listing, Mounting
  <2> QED
    BY <1>3, <2>1, <2>2, <2>3, <2>4, AllSettingsFit
       DEF FormInv, Fits, SubmittedAsShown, Form!SubmittedAsShown
<1> QED
  BY <1>4, <1>5

\* The form learns of the providers once.
LEMMA ProvidersArrivePreserves ==
    ASSUME FormInv, NEW t \in tasks, Form!ProvidersArrive(t)
    PROVE  FormInv'
<1>1. t \in Mounting /\ ~known /\ formLoading /\ Mounting = {t} /\ Listing = {}
  BY DEF FormInv, Form!ProvidersArrive, Mounting
<1>2. tasks = {t}
  BY <1>1 DEF Mounting, Listing
<1>3. UNCHANGED crossed
  BY DEF Form!ProvidersArrive
<1>4. ASSUME NEW active_1 \in Form!AllSettings, NEW p, p # None,
             form' = [form EXCEPT !.provider = p],
             Form!LoadModels(tasks \ {t}, [Form!Task("mount", p) EXCEPT !.active = active_1]),
             known', UNCHANGED <<settings, formLoading>>
      PROVE  FormInv'
  <2>1. DEFINE task == [Form!Task("mount", p) EXCEPT !.active = active_1]
  <2>2. task.kind = "mount" /\ task.provider = p /\ task.active = active_1
    BY DEF Form!Task
  <2>3. models' = {} /\ tasks' = {task} /\ modelLoading' = TRUE
    <3>1. tasks \ {t} = {} /\ task.kind # "providers"
      BY <1>2, <2>2
    <3>2. Form!LoadModels({}, task)
      BY <1>4, <3>1
    <3>3. models' = {} /\ tasks' = {} \cup {task} /\ modelLoading' = TRUE
      BY <1>4, <2>2, <3>1, <3>2, LoadModelsAsks
    <3> QED
      BY <3>3
  <2>4. Mounting' = {task} /\ Listing' = {task}
    BY <2>2, <2>3 DEF Mounting, Listing
  <2>5. form' = Form!Chosen(p, form.model) /\ form'.provider = p /\ form'.model = form.model
    BY <1>4 DEF FormInv, Form!Chosen
  <2>6. ~crossed => form.model = None
    BY <1>1 DEF FormInv
  <2> QED
    BY <1>1, <1>3, <1>4, <2>2, <2>3, <2>4, <2>5, <2>6, AllSettingsFit
       DEF FormInv, Fits, SubmittedAsShown, Form!SubmittedAsShown
<1>5. ASSUME UNCHANGED form, Form!EmitSettings, tasks' = tasks \ {t}, ~formLoading',
             UNCHANGED <<models, known, modelLoading>>
      PROVE  FormInv'
  <2>1. tasks' = {} /\ Mounting' = {} /\ Listing' = {}
    BY <1>2, <1>5 DEF Mounting, Listing
  <2> QED
    BY <1>1, <1>3, <1>5, <2>1
       DEF FormInv, Fits, SubmittedAsShown, Form!SubmittedAsShown, Form!EmitSettings
<1>6. ASSUME NEW task, task.kind # "providers", task.provider = None,
             form' = [form EXCEPT !.provider = None], Form!LoadModels(tasks \ {t}, task),
             known', Form!EmitSettings, formLoading' = FALSE
      PROVE  FormInv'
  <2>1. models' = {} /\ tasks' = {} /\ Mounting' = {} /\ Listing' = {}
    <3>1. models' = {} /\ tasks' = tasks \ {t}
      BY <1>6, LoadModelsAsks
    <3> QED
      BY <1>2, <3>1 DEF Mounting, Listing
  <2>2. /\ form' = Form!Chosen(None, form.model) /\ form'.provider = None
        /\ form'.model = form.model /\ settings' = form'
    BY <1>6 DEF FormInv, Form!Chosen, Form!EmitSettings
  <2>3. ~crossed => form.model = None
    BY <1>1 DEF FormInv
  <2> QED
    BY <1>3, <1>6, <2>1, <2>2, <2>3
       DEF FormInv, Fits, SubmittedAsShown, Form!SubmittedAsShown
<1>7. CASE known'
  <2>1. PICK active_1 \in Form!AllSettings, first \in Providers \cup {None} :
          LET p == IF form.provider # None THEN form.provider
                   ELSE IF active_1.provider # None THEN active_1.provider ELSE first
          IN /\ form' = [form EXCEPT !.provider = p]
             /\ Form!LoadModels(tasks \ {t}, [Form!Task("mount", p) EXCEPT !.active = active_1])
             /\ IF p = None THEN Form!EmitSettings /\ formLoading' = FALSE
                ELSE UNCHANGED <<settings, formLoading>>
    BY <1>1, <1>7 DEF Form!ProvidersArrive
  <2>2. PICK p : p = IF form.provider # None THEN form.provider
                     ELSE IF active_1.provider # None THEN active_1.provider ELSE first
    OBVIOUS
  <2>3. PICK task : task = [Form!Task("mount", p) EXCEPT !.active = active_1]
    OBVIOUS
  <2>4. task.kind # "providers" /\ task.provider = p
    BY <2>3 DEF Form!Task
  <2>5. /\ form' = [form EXCEPT !.provider = p]
        /\ Form!LoadModels(tasks \ {t}, task)
        /\ IF p = None THEN Form!EmitSettings /\ formLoading' = FALSE
           ELSE UNCHANGED <<settings, formLoading>>
    BY <2>1, <2>2, <2>3
  <2>6. CASE p = None
    BY <1>6, <1>7, <2>4, <2>5, <2>6
  <2>7. CASE p # None
    BY <1>4, <1>7, <2>3, <2>5, <2>7
  <2> QED
    BY <2>6, <2>7
<1>8. CASE ~known'
  BY <1>5, <1>8 DEF Form!ProvidersArrive
<1> QED
  BY <1>7, <1>8

\* What is left when the models are listed.
LEMMA ModelsAreListed ==
    ASSUME FormInv, NEW t \in tasks, t.kind # "providers", Form!ModelsListed(t)
    PROVE  /\ Mounting' = Mounting \ {t} /\ Listing' = Listing \ {t} /\ tasks' = tasks \ {t}
           /\ known /\ known'
           /\ \A u \in tasks' : u.kind # "providers"
           /\ ~crossed => Listing' = {} /\ models' \subseteq Form!ModelsOf(form.provider)
<1>1. t \in Listing
  BY DEF Listing
<1>2. known /\ known' /\ tasks' = tasks \ {t}
  BY <1>1 DEF FormInv, Form!ModelsListed
<1> QED
  BY <1>1, <1>2 DEF FormInv, Form!ModelsListed, Mounting, Listing

\* A model of the provider shown is taken, and the page is told.
LEMMA ModelIsTaken ==
    ASSUME FormInv, NEW t \in tasks, t.kind # "providers", Form!ModelsListed(t),
           NEW m, form' = [form EXCEPT !.model = m], Form!EmitSettings, UNCHANGED crossed,
           ~crossed => m = None \/ m[1] = form.provider,
           formLoading' <=> Mounting' # {}, ~formLoading'
    PROVE  FormInv'
<1>1. form' = Form!Chosen(form.provider, m) /\ form'.provider = form.provider /\ form'.model = m
  BY DEF FormInv, Form!Chosen
<1> QED
  BY <1>1, ModelsAreListed
     DEF FormInv, Fits, SubmittedAsShown, Form!SubmittedAsShown, Form!EmitSettings

LEMMA MountArrivesPreserves ==
    ASSUME FormInv, NEW t \in tasks, Form!MountArrives(t)
    PROVE  FormInv'
<1>1. t \in Mounting /\ Mounting = {t} /\ formLoading
  BY DEF FormInv, Form!MountArrives, Mounting
<1>2. Mounting' = {} /\ formLoading' = FALSE
  BY <1>1, ModelsAreListed DEF Form!MountArrives
<1>3. DEFINE p == form.provider
             taken == Form!Or(Form!DefaultOf(p), Form!FirstOf(models'))
             ofActive == IF p = t.active.provider THEN t.active.model ELSE None
<1>4. form' = [form EXCEPT !.model = Form!Or(form.model, Form!Or(ofActive, taken))]
  BY DEF Form!MountArrives
<1>5. ASSUME ~crossed
      PROVE  \/ Form!Or(form.model, Form!Or(ofActive, taken)) = None
             \/ Form!Or(form.model, Form!Or(ofActive, taken))[1] = p
  <2>1. taken = None \/ taken[1] = p
    BY <1>5, ModelsAreListed, DefaultFits DEF Form!MountArrives
  <2>2. form.model = None /\ Fits(t.active)
    BY <1>1, <1>5 DEF FormInv
  <2> QED
    BY <2>1, <2>2 DEF Form!Or, Fits
<1> QED
  BY <1>2, <1>4, <1>5, ModelIsTaken DEF Form!MountArrives

LEMMA ChangeArrivesPreserves ==
    ASSUME FormInv, NEW t \in tasks, Form!ChangeArrives(t)
    PROVE  FormInv'
<1>1. DEFINE taken == Form!Or(Form!DefaultOf(form.provider), Form!FirstOf(models'))
<1>2. form' = [form EXCEPT !.model = taken]
  BY DEF Form!ChangeArrives
<1>3. ~crossed => taken = None \/ taken[1] = form.provider
  BY ModelsAreListed, DefaultFits DEF Form!ChangeArrives
<1>4. Mounting' = Mounting
  BY ModelsAreListed DEF Form!ChangeArrives, Mounting
<1>5. ~formLoading /\ ~formLoading' /\ Mounting = {}
  BY DEF Form!ChangeArrives, FormInv
<1>6. formLoading' <=> Mounting' # {}
  BY <1>4, <1>5 DEF Form!ChangeArrives
<1>7. t.kind # "providers" /\ Form!ModelsListed(t) /\ Form!EmitSettings /\ UNCHANGED crossed
  BY DEF Form!ChangeArrives
<1> QED
  BY <1>2, <1>3, <1>5, <1>6, <1>7, ModelIsTaken

LEMMA WatchArrivesPreserves ==
    ASSUME FormInv, NEW t \in tasks, Form!WatchArrives(t)
    PROVE  FormInv'
  BY DEF FormInv, Fits, SubmittedAsShown, Form!SubmittedAsShown, Form!WatchArrives, Form!ModelsListed,
     Mounting, Listing

LEMMA FormUnchanged ==
    ASSUME FormInv, UNCHANGED formVars
    PROVE  FormInv'
  BY DEF formVars, FormInv, Fits, SubmittedAsShown, Form!SubmittedAsShown, Mounting, Listing

\* A job is submitted with the provider and the model that the form shows, and they fit,
\* whatever arrives when, with the exceptions that the property names
\* (JobAdvancedSettings.vue 54-134, App.vue).
THEOREM SubmittedAsShownHolds == Spec => []SubmittedAsShown
<1>1. Init => FormInv
  BY FormStarts
<1>2. FormInv /\ [Next]_vars => FormInv'
  <2> SUFFICES ASSUME FormInv, [Next]_vars
               PROVE  FormInv'
    OBVIOUS
  <2>1. CASE UNCHANGED formVars
    BY <2>1, FormUnchanged
  <2>2. CASE Form!Next
    BY <2>2, ChooseProviderPreserves, ChooseModelPreserves, PageSetsPreserves,
       ProvidersArrivePreserves, MountArrivesPreserves, ChangeArrivesPreserves,
       WatchArrivesPreserves DEF Form!Next
  <2>3. CASE UNCHANGED vars
    BY <2>1, <2>3 DEF vars
  <2> QED
    BY <2>1, <2>2, <2>3 DEF Next
<1>3. FormInv => SubmittedAsShown
  BY DEF FormInv
<1> QED
  BY <1>1, <1>2, <1>3, PTL DEF Spec

-----------------------------------------------------------------------------
(* A rendered message *)

\* A rendering of the last version is a rendering of the content shown, and while
\* nothing is rendering that content is on the page.
MessageInv ==
    /\ renderVersion \in Nat
    /\ \A r \in renders : r.version \in Nat /\ r.version <= renderVersion
    /\ \A r \in renders : r.version = renderVersion => r.content = markdown
    /\ \A r \in renders : r.state \in {"waits", "rendered", "failed"}
    /\ RenderedIsLatest

LEMMA MessageInit == Init => MessageInv
  BY DEF Init, MessageInv, RenderedIsLatest, Message!RenderedIsLatest, Message!Init,
         Message!Render

\* A new content starts a rendering of a version above all others.
LEMMA ContentChangesPreserves ==
    ASSUME MessageInv, Message!ContentChanges
    PROVE  MessageInv'
  BY DEF MessageInv, RenderedIsLatest, Message!RenderedIsLatest, Message!ContentChanges,
         Message!Render

\* A rendering keeps its content and its version.
LEMMA RenderMarkdownPreserves ==
    ASSUME MessageInv, NEW r \in renders, Message!RenderMarkdown(r)
    PROVE  MessageInv'
<1>1. PICK state \in {"rendered", "failed"} :
         renders' = (renders \ {r}) \cup {[r EXCEPT !.state = state]}
  BY DEF Message!RenderMarkdown
<1>2. /\ [r EXCEPT !.state = state].version = r.version
      /\ [r EXCEPT !.state = state].content = r.content
      /\ [r EXCEPT !.state = state].state = state
  OBVIOUS
<1> QED
  BY <1>1, <1>2 DEF MessageInv, RenderedIsLatest, Message!RenderedIsLatest,
                    Message!RenderMarkdown

\* An older rendering changes nothing that is shown.
LEMMA RenderArrivesPreserves ==
    ASSUME MessageInv, NEW r \in renders, Message!RenderArrives(r)
    PROVE  MessageInv'
<1>1. CASE r.version = renderVersion
  BY <1>1 DEF MessageInv, RenderedIsLatest, Message!RenderedIsLatest, Message!RenderArrives
<1>2. CASE r.version # renderVersion
  BY <1>2 DEF MessageInv, RenderedIsLatest, Message!RenderedIsLatest, Message!RenderArrives
<1> QED
  BY <1>1, <1>2

LEMMA MessageUnchanged ==
    ASSUME MessageInv, UNCHANGED messageVars
    PROVE  MessageInv'
  BY DEF messageVars, MessageInv, RenderedIsLatest, Message!RenderedIsLatest

\* Whatever the order in which the highlighter is ready with the contents of a message,
\* what is shown once nothing is rendering is the last one (MarkdownContent.vue 160-173).
THEOREM RenderedIsLatestHolds == Spec => []RenderedIsLatest
<1>1. Init => MessageInv
  BY MessageInit
<1>2. MessageInv /\ [Next]_vars => MessageInv'
  <2> SUFFICES ASSUME MessageInv, [Next]_vars
               PROVE  MessageInv'
    OBVIOUS
  <2>1. CASE UNCHANGED messageVars
    BY <2>1, MessageUnchanged
  <2>2. CASE Message!Next
    BY <2>2, ContentChangesPreserves, RenderMarkdownPreserves, RenderArrivesPreserves
       DEF Message!Next
  <2>3. CASE UNCHANGED vars
    BY <2>1, <2>3 DEF vars
  <2> QED
    BY <2>1, <2>2, <2>3 DEF Next
<1>3. MessageInv => RenderedIsLatest
  BY DEF MessageInv
<1> QED
  BY <1>1, <1>2, <1>3, PTL DEF Spec

-----------------------------------------------------------------------------
(* The browsers of a job *)

OneOpening == \A r1, r2 \in Inspector!Openings : r1 = r2

\* The workspace and the preview have one request for a content under way at a time;
\* an artifact may be asked for while another is on its way.
InspectorInv ==
    /\ browser = "preview" => selected = None
    /\ browser # "artifact" => OneOpening /\ (opening \/ Inspector!Openings = {})
    /\ ContentIsOfItsJob

LEMMA InspectorInit == Init => InspectorInv
  BY DEF Init, InspectorInv, OneOpening, ContentIsOfItsJob, Inspector!ContentIsOfItsJob,
         Inspector!Init, Inspector!Openings, Inspector!Ask, Inspector!Nothing

\* Loading the list, or waiting for it, leaves the openings alone.
LEMMA SameOpenings ==
    ASSUME InspectorInv, Inspector!Openings' = Inspector!Openings,
           UNCHANGED <<browser, job, selected, content, opening, overtaken>>
    PROVE  InspectorInv'
  BY DEF InspectorInv, OneOpening, ContentIsOfItsJob, Inspector!ContentIsOfItsJob

\* An opening of the workspace waits for no other; one of an artifact that does not is
\* overtaken.
LEMMA OpenPreserves ==
    ASSUME InspectorInv, NEW kind \in {"open", "first"}, NEW n, NEW rest,
           {r \in rest : r.kind # "list"} = Inspector!Openings,
           Inspector!Open(kind, n, rest), UNCHANGED <<browser, job, content>>
    PROVE  InspectorInv'
<1>1. DEFINE asked == Inspector!Ask(kind, n)
<1>2. asked.kind # "list" /\ asked.job = job /\ asked.name = n
  BY DEF Inspector!Ask
<1>3. CASE browser = "workspace" /\ Inspector!OpenFile(kind, n, rest)
  <2>1. CASE opening
    <3>1. Inspector!Openings' = Inspector!Openings
      BY <1>3, <2>1 DEF Inspector!OpenFile, Inspector!Openings
    <3> QED
      BY <1>3, <2>1, <3>1, SameOpenings DEF Inspector!OpenFile
  <2>2. CASE ~opening
    <3>1. Inspector!Openings = {}
      BY <1>3, <2>2 DEF InspectorInv
    <3>2. requested' = rest \cup {asked}
      BY <1>3, <2>2 DEF Inspector!OpenFile
    <3>3. Inspector!Openings' = {asked}
      BY <1>2, <3>1, <3>2 DEF Inspector!Openings
    <3>4. selected' = n /\ opening' = TRUE /\ overtaken' = overtaken
      BY <1>3, <2>2 DEF Inspector!OpenFile
    <3> QED
      BY <1>2, <1>3, <3>3, <3>4
         DEF InspectorInv, OneOpening, ContentIsOfItsJob, Inspector!ContentIsOfItsJob
  <2> QED
    BY <2>1, <2>2
<1>4. CASE browser = "artifact" /\ Inspector!OpenArtifact(kind, n, rest)
  <2>1. requested' = rest \cup {asked}
    BY <1>4 DEF Inspector!OpenArtifact
  <2>2. Inspector!Openings' = Inspector!Openings \cup {asked}
    BY <1>2, <2>1 DEF Inspector!Openings
  <2>3. selected' = n /\ (overtaken' = (overtaken \/ Inspector!Openings # {}))
    BY <1>4 DEF Inspector!OpenArtifact
  <2> QED
    BY <1>2, <1>4, <2>2, <2>3
       DEF InspectorInv, ContentIsOfItsJob, Inspector!ContentIsOfItsJob
<1> QED
  BY <1>3, <1>4 DEF Inspector!Open

LEMMA ChoosePreserves ==
    ASSUME InspectorInv, NEW n \in Names, Inspector!Choose(n)
    PROVE  InspectorInv'
  BY OpenPreserves DEF Inspector!Choose, Inspector!Openings

\* A list is no opening.
LEMMA LoadListKeepsOpenings ==
    ASSUME NEW j, Inspector!LoadList(j)
    PROVE  Inspector!Openings' = Inspector!Openings
<1>1. [Inspector!Ask("list", None) EXCEPT !.job = j].kind = "list"
  BY DEF Inspector!Ask
<1> QED
  BY <1>1 DEF Inspector!LoadList, Inspector!Openings

LEMMA WantPreserves ==
    ASSUME InspectorInv, NEW n \in Names, Inspector!Want(n)
    PROVE  InspectorInv'
<1>1. UNCHANGED <<browser, job, content>>
  BY DEF Inspector!Want
<1>2. CASE selected = n
  BY <1>1, <1>2, SameOpenings DEF Inspector!Want, Inspector!Openings
<1>3. CASE selected # n /\ n \in names
  BY <1>1, <1>3, OpenPreserves DEF Inspector!Want, Inspector!Openings
<1>4. CASE selected # n /\ n \notin names
  BY <1>1, <1>4, SameOpenings, LoadListKeepsOpenings DEF Inspector!Want
<1> QED
  BY <1>2, <1>3, <1>4

LEMMA RefreshPreserves ==
    ASSUME InspectorInv, Inspector!Refresh
    PROVE  InspectorInv'
  BY SameOpenings, LoadListKeepsOpenings DEF Inspector!Refresh

LEMMA BuildPreviewPreserves ==
    ASSUME InspectorInv, Inspector!BuildPreview
    PROVE  InspectorInv'
<1>1. DEFINE asked == Inspector!Ask("open", None)
<1>2. asked.kind # "list" /\ asked.job = job /\ asked.name = None
  BY DEF Inspector!Ask
<1>3. Inspector!Openings = {}
  BY DEF InspectorInv, Inspector!BuildPreview
<1>4. Inspector!Openings' = {asked}
  BY <1>2, <1>3 DEF Inspector!Openings, Inspector!BuildPreview
<1> QED
  BY <1>2, <1>4 DEF InspectorInv, OneOpening, ContentIsOfItsJob, Inspector!ContentIsOfItsJob,
                    Inspector!BuildPreview

\* Another job begins with nothing shown, and with what is under way as overtaken.
LEMMA JobChangesPreserves ==
    ASSUME InspectorInv, NEW j \in Jobs, Inspector!JobChanges(j)
    PROVE  InspectorInv'
<1>1. Inspector!Openings' = Inspector!Openings
  BY LoadListKeepsOpenings DEF Inspector!JobChanges, Inspector!Openings
<1>2. content'.job = None /\ selected' = None
  BY DEF Inspector!JobChanges, Inspector!Nothing
<1>3. (overtaken' = (Inspector!Openings # {})) /\ browser' = browser /\ opening' = opening
  BY DEF Inspector!JobChanges
<1> QED
  BY <1>1, <1>2, <1>3
     DEF InspectorInv, OneOpening, ContentIsOfItsJob, Inspector!ContentIsOfItsJob

LEMMA ListArrivesPreserves ==
    ASSUME InspectorInv, NEW r \in requested, Inspector!ListArrives(r)
    PROVE  InspectorInv'
<1>1. UNCHANGED <<browser, job, content>>
  BY DEF Inspector!ListArrives
<1>2. {q \in requested \ {r} : q.kind # "list"} = Inspector!Openings
  BY DEF Inspector!ListArrives, Inspector!Openings
<1>3. CASE \E n : Inspector!Open("first", n, requested \ {r})
  BY <1>1, <1>2, <1>3, OpenPreserves
<1>4. CASE requested' = requested \ {r} /\ UNCHANGED <<selected, opening, overtaken>>
  BY <1>1, <1>2, <1>4, SameOpenings DEF Inspector!Openings
<1> QED
  BY <1>3, <1>4 DEF Inspector!ListArrives

LEMMA OpenArrivesPreserves ==
    ASSUME InspectorInv, NEW r \in requested, Inspector!OpenArrives(r)
    PROVE  InspectorInv'
<1>1. r \in Inspector!Openings
  BY DEF Inspector!OpenArrives, Inspector!Openings
<1>2. Inspector!Openings' = Inspector!Openings \ {r}
  BY DEF Inspector!OpenArrives, Inspector!Openings
<1>3. content' = content \/ content'.job = r.job
  BY DEF Inspector!OpenArrives
<1>4. /\ UNCHANGED <<browser, job, selected>> /\ opening' = FALSE
      /\ overtaken' = (overtaken /\ ~(Inspector!Openings = {r} /\ content'.job \in {None, job}))
  BY DEF Inspector!OpenArrives
<1>5. OneOpening => Inspector!Openings' = {}
  BY <1>1, <1>2 DEF OneOpening
<1>6. ContentIsOfItsJob'
  BY <1>1, <1>2, <1>3, <1>4 DEF InspectorInv, ContentIsOfItsJob, Inspector!ContentIsOfItsJob
<1> QED
  BY <1>2, <1>4, <1>5, <1>6 DEF InspectorInv, OneOpening

LEMMA InspectorUnchanged ==
    ASSUME InspectorInv, UNCHANGED inspectorVars
    PROVE  InspectorInv'
  BY SameOpenings DEF inspectorVars, Inspector!Openings

\* The content shown for a job is of that job, for any number of jobs, names and requests
\* under way, with the exception that the property names (WorkspaceBrowser.vue 32-78,
\* ArtifactBrowser.vue 27-74, JobPanel.vue 134-160).
THEOREM ContentIsOfItsJobHolds == Spec => []ContentIsOfItsJob
<1>1. Init => InspectorInv
  BY InspectorInit
<1>2. InspectorInv /\ [Next]_vars => InspectorInv'
  <2> SUFFICES ASSUME InspectorInv, [Next]_vars
               PROVE  InspectorInv'
    OBVIOUS
  <2>1. CASE UNCHANGED inspectorVars
    BY <2>1, InspectorUnchanged
  <2>2. CASE Inspector!Next
    BY <2>2, ChoosePreserves, WantPreserves, RefreshPreserves, BuildPreviewPreserves,
       JobChangesPreserves, ListArrivesPreserves, OpenArrivesPreserves DEF Inspector!Next
  <2>3. CASE UNCHANGED vars
    BY <2>1, <2>3 DEF vars
  <2> QED
    BY <2>1, <2>2, <2>3 DEF Next
<1>3. InspectorInv => ContentIsOfItsJob
  BY DEF InspectorInv
<1> QED
  BY <1>1, <1>2, <1>3, PTL DEF Spec
=============================================================================
