---------------------------- MODULE HistoryPanel ----------------------------
(***************************************************************************)
(* The history of the jobs (JobHistory.vue) over the list the server cuts  *)
(* into pages (list_jobs, update_job_metadata in web_jobs.py).  A cursor   *)
(* is an offset into a list that is sorted again for every page.  Opening  *)
(* a job and running it again belong to JobView.                           *)
(***************************************************************************)
EXTENDS Naturals, Sequences, FiniteSets, SequencesExt

CONSTANTS
    Jobs,
    PageSize,
    MaxSteps,          \* what the user does (a bound)
    MaxChanges         \* changes of the jobs at the server, and requests lost (a bound)

VARIABLES
    starred, filed,    \* server: the jobs that are starred, and those archived
    updated,           \* server: updated_at of every job, all different
    listed,            \* jobs
    archived,          \* the tab
    cursor, hasMore, loading, loadingMore, failed, actionIds,
    pages,             \* page requests and their answers under way
    edits,             \* metadata requests and their answers under way
    mixed,             \* page requests overlapped since the list was last started
    moved,             \* since its first page was cut the jobs of the server changed,
                       \* or a change made before was yet to be answered
    steps, changes

jobServer == <<starred, filed, updated>>
list == <<listed, archived, cursor, hasMore>>
flags == <<loading, loadingMore, failed>>
vars == <<jobServer, list, flags, actionIds, pages, edits, mixed, moved, steps, changes>>

\* Of what comes before each, the sequence: the k-th is the one that has k - 1 before it.
Sorted(earlier) ==
    [k \in 1 .. Cardinality(DOMAIN earlier) |->
        CHOOSE x \in DOMAIN earlier : Cardinality(earlier[x]) = k - 1]

\* list_jobs: the jobs of a tab, starred ones first, then the last updated.
Tab(a) ==
    LET jobs == IF a THEN filed ELSE Jobs \ filed
        Before(i, j) == IF (i \in starred) # (j \in starred) THEN i \in starred
                        ELSE updated[i] > updated[j]
    IN  Sorted([j \in jobs |-> {i \in jobs : Before(i, j)}])

Entry(j) == [job |-> j, starred |-> j \in starred, archived |-> j \in filed, updated |-> updated[j]]
Page(reset, offset, tab) ==
    [id |-> steps, reset |-> reset, offset |-> offset, tab |-> tab, answer |-> "none",
     jobs |-> <<>>, next |-> 0, more |-> FALSE]

Init ==
    /\ starred = {} /\ filed = {}
    /\ updated = CHOOSE u \in [Jobs -> 1 .. Cardinality(Jobs)] : IsInjective(u)
    /\ listed = <<>> /\ archived = FALSE /\ cursor = 0 /\ hasMore = FALSE
    /\ loading = TRUE /\ loadingMore = FALSE /\ failed = FALSE
    /\ steps = 0 /\ changes = 0
    /\ actionIds = {} /\ edits = {}
    /\ pages = {Page(TRUE, 0, FALSE)}
    /\ mixed = FALSE /\ moved = FALSE

Step == steps < MaxSteps /\ steps' = steps + 1

----------------------------------------------------------------------------
(* What the user does *)

\* load up to its request, for the tab that is open.
Load(reset, tab) ==
    /\ IF reset THEN /\ loading' = TRUE /\ cursor' = 0 /\ listed' = <<>>
                     /\ edits' = {[e EXCEPT !.kept = FALSE] : e \in edits}
                     /\ UNCHANGED loadingMore
       ELSE loadingMore' = TRUE /\ UNCHANGED <<loading, cursor, listed, edits>>
    /\ failed' = FALSE
    /\ pages' = pages \cup {Page(reset, IF reset THEN 0 ELSE cursor, tab)}
    /\ mixed' = (pages # {} \/ (mixed /\ ~reset))
    /\ UNCHANGED <<jobServer, hasMore, actionIds, moved, changes>>

\* Mutant: the tab is switched and the list goes on from where it was.
SwitchArchiveKeeps(tab) == Step /\ tab # archived /\ archived' = tab /\ Load(FALSE, tab)

\* switchArchive.
SwitchArchive(tab) == Step /\ tab # archived /\ archived' = tab /\ Load(TRUE, tab)

\* The button below the list.
LoadMore == Step /\ hasMore /\ ~loadingMore /\ Load(FALSE, archived) /\ UNCHANGED archived

\* The button of the error that hides the list.
LoadAgain == Step /\ failed /\ ~loading /\ Load(TRUE, archived) /\ UNCHANGED archived

\* toggleStar and toggleArchive: the other value than the one shown; one item at a time.
Toggle(kind, entry) ==
    /\ Step /\ ~loading /\ ~failed /\ entry.job \notin actionIds
    /\ actionIds' = {entry.job}
    /\ edits' = edits \cup {[id |-> steps, kind |-> kind, job |-> entry.job, answer |-> "none", kept |-> TRUE,
                             value |-> IF kind = "star" THEN ~entry.starred ELSE ~entry.archived]}
    /\ UNCHANGED <<jobServer, list, flags, pages, mixed, moved, changes>>

----------------------------------------------------------------------------
(* What the server does *)

Change == changes < MaxChanges /\ changes' = changes + 1

Cut(p) ==
    LET tab == Tab(p.tab)
        to == IF p.offset + PageSize < Len(tab) THEN p.offset + PageSize ELSE Len(tab) IN
    [p EXCEPT !.answer = "ok", !.more = to < Len(tab), !.next = IF to < Len(tab) THEN to ELSE 0,
              !.jobs = [k \in 1 .. (IF to > p.offset THEN to - p.offset ELSE 0) |->
                            Entry(tab[p.offset + k])]]

\* list_jobs.
ServePage(p) ==
    /\ p.answer = "none"
    /\ pages' = (pages \ {p}) \cup {Cut(p)}
    /\ moved' = IF p.reset THEN edits # {} ELSE moved
    /\ UNCHANGED <<jobServer, list, flags, actionIds, edits, mixed, steps, changes>>

Now == Max(Range(updated)) + 1

\* update_job_metadata: the job comes to the front of its tab; a running one is not archived.
ServeEdit(e) ==
    /\ e.answer = "none"
    /\ \/ /\ CASE e.kind = "star" ->
                  /\ starred' = IF e.value THEN starred \cup {e.job} ELSE starred \ {e.job}
                  /\ UNCHANGED filed
               [] e.kind = "archive" ->
                  /\ filed' = IF e.value THEN filed \cup {e.job} ELSE filed \ {e.job}
                  /\ UNCHANGED starred
          /\ updated' = [updated EXCEPT ![e.job] = Now]
          /\ edits' = (edits \ {e}) \cup {[e EXCEPT !.answer = "ok"]}
          /\ moved' = TRUE
       \/ /\ e.kind = "archive" /\ e.value
          /\ edits' = (edits \ {e}) \cup {[e EXCEPT !.answer = "failed"]}
          /\ UNCHANGED <<jobServer, moved>>
    /\ UNCHANGED <<list, flags, actionIds, pages, mixed, steps, changes>>

\* A job makes progress.
JobMoves(j) ==
    /\ Change /\ updated' = [updated EXCEPT ![j] = Now] /\ moved' = TRUE
    /\ UNCHANGED <<starred, filed, list, flags, actionIds, pages, edits, mixed, steps>>

PageFails(p) ==
    /\ Change /\ p.answer # "failed"
    /\ pages' = (pages \ {p}) \cup {[p EXCEPT !.answer = "failed"]}
    /\ UNCHANGED <<jobServer, list, flags, actionIds, edits, mixed, moved, steps>>

----------------------------------------------------------------------------
(* What the panel does with an answer *)

\* load from its answer on, whichever tab and list it was asked for.
PageArrives(p) ==
    /\ p.answer # "none"
    /\ loading' = FALSE /\ loadingMore' = FALSE
    /\ IF p.answer = "ok"
       THEN /\ listed' = IF p.reset THEN p.jobs ELSE listed \o p.jobs
            /\ cursor' = p.next /\ hasMore' = p.more /\ UNCHANGED failed
       ELSE failed' = TRUE /\ UNCHANGED <<listed, cursor, hasMore>>
    /\ pages' = pages \ {p}
    /\ UNCHANGED <<jobServer, archived, actionIds, edits, mixed, moved, steps, changes>>

\* The list after a star: by the updated_at that was read, not by the new one.  The star
\* is set in the item that was clicked, which a list started again does not have.
Restarred(e) ==
    LET marked == [k \in DOMAIN listed |-> IF e.kept /\ listed[k].job = e.job
                                           THEN [listed[k] EXCEPT !.starred = e.value]
                                           ELSE listed[k]]
        Before(h, k) == IF marked[h].starred # marked[k].starred THEN marked[h].starred
                        ELSE marked[h].updated > marked[k].updated
        order == Sorted([k \in DOMAIN listed |->
                            {h \in DOMAIN listed : Before(h, k) \/ (h < k /\ ~Before(k, h))}])
    IN  [k \in DOMAIN order |-> marked[order[k]]]

\* The list after a job has left the tab.
Without(j) ==
    LET others == {k \in DOMAIN listed : listed[k].job # j}
        kept == Sorted([k \in others |-> {h \in others : h < k}])
    IN  [k \in DOMAIN kept |-> listed[kept[k]]]

EditArrives(e) ==
    /\ e.answer # "none"
    /\ listed' = IF e.answer = "failed" THEN listed
                 ELSE IF e.kind = "star" THEN Restarred(e)
                 ELSE Without(e.job)
    /\ actionIds' = {} /\ edits' = edits \ {e}
    /\ UNCHANGED <<jobServer, archived, cursor, hasMore, flags, pages, mixed, moved, steps, changes>>

----------------------------------------------------------------------------

Next ==
    \/ \E tab \in BOOLEAN : SwitchArchive(tab)
    \/ LoadMore \/ LoadAgain
    \/ \E kind \in {"star", "archive"}, entry \in Range(listed) : Toggle(kind, entry)
    \/ \E p \in pages : ServePage(p) \/ PageFails(p) \/ PageArrives(p)
    \/ \E e \in edits : ServeEdit(e) \/ EditArrives(e)
    \/ \E j \in Jobs : JobMoves(j)

----------------------------------------------------------------------------
(* Properties *)

\* What is listed is the beginning of the tab that is open, in the server's order, and
\* more is offered exactly when the tab is longer.  The pages fit together only if
\* the jobs did not change meanwhile, since a cursor is an offset (web_jobs.py 826), and
\* if the answers of two loads did not cross, since neither tab nor cursor of an answer
\* is looked at (JobHistory 75-82); and the answer to an archiving takes its job out of
\* whatever tab is listed by then (117).
HistoryIsAPrefix ==
    ~mixed /\ ~moved /\ ~loading /\ ~failed =>
        LET tab == Tab(archived) IN
        /\ Len(listed) <= Len(tab)
        /\ \A k \in DOMAIN listed : listed[k] = Entry(tab[k])
        /\ loadingMore \/ (hasMore <=> Len(listed) < Len(tab))
=============================================================================
