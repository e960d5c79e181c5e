---------------------------- MODULE MarkdownView ----------------------------
(***************************************************************************)
(* A message rendered as Markdown (MarkdownContent.vue).  Rendering waits  *)
(* for the highlighter, its languages and the diagrams; the content may    *)
(* change meanwhile, and a later rendering may be ready first.             *)
(***************************************************************************)
EXTENDS Naturals

CONSTANTS
    Contents,
    None,
    MaxVersions     \* contents one after the other (a bound)

VARIABLES
    markdown,        \* props.content
    html,            \* the content that html was rendered from
    rendering,
    renderVersion,
    renders,         \* renderings under way
    broken           \* the last rendering failed

vars == <<markdown, html, rendering, renderVersion, renders, broken>>

Render(c, version) == [content |-> c, version |-> version, state |-> "waits"]

Init ==
    /\ markdown = CHOOSE c \in Contents : TRUE
    /\ html = None /\ rendering = TRUE /\ renderVersion = 1
    /\ renders = {Render(markdown, 1)}
    /\ broken = FALSE

\* The watcher of the content, up to the rendering.
ContentChanges ==
    /\ renderVersion < MaxVersions
    /\ \E c \in Contents \ {markdown} :
         /\ markdown' = c
         /\ renderVersion' = renderVersion + 1
         /\ renders' = renders \cup {Render(c, renderVersion')}
    /\ rendering' = TRUE
    /\ UNCHANGED <<html, broken>>

\* renderMarkdown: code that cannot be highlighted stays plain text, a diagram that cannot
\* be drawn stays code; without the module of the diagrams the rendering fails.
RenderMarkdown(r) ==
    /\ r.state = "waits"
    /\ \E state \in {"rendered", "failed"} :
         renders' = (renders \ {r}) \cup {[r EXCEPT !.state = state]}
    /\ UNCHANGED <<markdown, html, rendering, renderVersion, broken>>

\* Mutant: a rendering is shown whenever it is ready.
RenderArrivesAnyway(r) ==
    /\ r.state # "waits" /\ renders' = renders \ {r}
    /\ html' = IF r.state = "rendered" THEN r.content ELSE html
    /\ broken' = (r.state = "failed")
    /\ rendering' = (rendering /\ r.version # renderVersion)
    /\ UNCHANGED <<markdown, renderVersion>>

\* The watcher from the rendering on: only the last one counts.
RenderArrives(r) ==
    /\ r.state # "waits" /\ renders' = renders \ {r}
    /\ IF r.version = renderVersion
       THEN /\ html' = IF r.state = "rendered" THEN r.content ELSE html
            /\ broken' = (r.state = "failed")
            /\ rendering' = FALSE
       ELSE UNCHANGED <<html, broken, rendering>>
    /\ UNCHANGED <<markdown, renderVersion>>

Next == ContentChanges \/ \E r \in renders : RenderMarkdown(r) \/ RenderArrives(r)

----------------------------------------------------------------------------
(* Properties *)

\* Once nothing is rendering, what is shown was rendered from the last content, in
\* whatever order the renderings were ready, unless that one failed (MarkdownContent
\* 160-173).
RenderedIsLatest == ~rendering => html = markdown \/ broken
=============================================================================
