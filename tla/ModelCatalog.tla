---------------------------- MODULE ModelCatalog ----------------------------
(***************************************************************************)
(* The catalog of models: fetched from models.dev, kept in memory and in a *)
(* file (catalog.ts), merged into the bridge's own list of providers and   *)
(* its index by id (registry.ts).  A catalog is its version; only names    *)
(* and models are taken from it, so an entry stands for its list.          *)
(*                                                                         *)
(* The managed start reads the list once before anybody else, and the      *)
(* settings page starts one refresh at a time.                             *)
(***************************************************************************)
EXTENDS Naturals

CONSTANT MaxVersion  \* versions the catalog of models.dev goes through (a bound)

VARIABLES
    upstream,   \* the version models.dev has
    cached,     \* memoryCache: a version, and whether its time to live has not passed
    file,       \* the cache file: the same, and whether it can be parsed
    entries,    \* loadedEntries: Unloaded, Static or the version merged into it
    index,      \* byIdCache: the entries it was made from
    fetching,   \* the fetch under way: "none", "list" or "refresh", and its step
    newest,     \* history: the newest version ever listed
    unsaved     \* history: the last write of the file failed or was cut short

history == <<newest, unsaved>>
vars == <<upstream, cached, file, entries, index, fetching, history>>

Static == 0
Unloaded == MaxVersion + 1
Idle == [kind |-> "none", pc |-> "idle", got |-> Static]
NoCache == [version |-> Static, fresh |-> FALSE]
NoFile == [version |-> Static, fresh |-> FALSE, whole |-> FALSE]

Init ==
    /\ upstream = 1
    /\ cached = NoCache /\ entries = Unloaded /\ index = Unloaded
    /\ file = NoFile
    /\ fetching = Idle
    /\ newest = Static /\ unsaved = FALSE

\* readCacheFile: nothing if there is no file, or one that cannot be parsed.
Readable == IF file.whole THEN file.version ELSE Static

\* loadEntries and refreshCatalog: what was fetched, merged into the static entries.
Load(version) ==
    /\ entries' = version
    /\ index' = IF fetching.kind = "refresh" THEN version ELSE index
    /\ newest' = IF version > newest THEN version ELSE newest

\* list: the entries are loaded once; a fresh catalog in memory is good enough.
List ==
    /\ fetching.pc = "idle" /\ entries = Unloaded
    /\ IF cached.fresh THEN /\ Load(cached.version)
                            /\ UNCHANGED fetching
       ELSE /\ fetching' = [Idle EXCEPT !.kind = "list", !.pc = "file"]
            /\ UNCHANGED <<entries, index, newest>>
    /\ UNCHANGED <<upstream, cached, file, unsaved>>

Refresh ==
    /\ fetching.pc = "idle"
    /\ fetching' = [Idle EXCEPT !.kind = "refresh", !.pc = "network"]
    /\ UNCHANGED <<upstream, cached, file, entries, index, history>>

\* loadById: made of the entries when it is first needed.
LookUp ==
    /\ entries # Unloaded /\ index = Unloaded
    /\ index' = entries
    /\ UNCHANGED <<upstream, cached, file, entries, fetching, history>>

\* fetchCatalog without force: a file younger than the time to live will do.
ReadFile ==
    /\ fetching.pc = "file"
    /\ IF file.fresh /\ Readable # Static
       THEN /\ cached' = [version |-> Readable, fresh |-> TRUE]
            /\ Load(Readable)
            /\ fetching' = Idle
       ELSE /\ fetching' = [fetching EXCEPT !.pc = "network"]
            /\ UNCHANGED <<cached, entries, index, newest>>
    /\ UNCHANGED <<upstream, file, unsaved>>

\* The answer of models.dev; it is to be written to the file, which may be truncated
\* for that already.
Fetched ==
    /\ fetching.pc = "network"
    /\ cached' = [version |-> upstream, fresh |-> TRUE]
    /\ \/ UNCHANGED <<file, unsaved>>
       \/ file' = [file EXCEPT !.whole = FALSE] /\ unsaved' = TRUE
    /\ fetching' = [fetching EXCEPT !.pc = "write", !.got = upstream]
    /\ UNCHANGED <<upstream, entries, index, newest>>

\* writeCacheFile is done, or has failed, which nobody is told; the entries follow.
Written ==
    /\ fetching.pc = "write"
    /\ \/ /\ file' = [version |-> fetching.got, fresh |-> TRUE, whole |-> TRUE]
          /\ unsaved' = FALSE
       \/ UNCHANGED file /\ unsaved' = TRUE
    /\ Load(fetching.got)
    /\ fetching' = Idle
    /\ UNCHANGED <<upstream, cached>>

\* Mutant: what was fetched earlier is given up when models.dev cannot be reached.
FetchFailsEmpty ==
    /\ fetching.pc = "network"
    /\ Load(Static)
    /\ fetching' = Idle
    /\ UNCHANGED <<upstream, cached, file, unsaved>>

\* No answer, or one that is refused: the file, however old it is, or the static entries.
FetchFails ==
    /\ fetching.pc = "network"
    /\ cached' = IF Readable = Static THEN cached ELSE [version |-> Readable, fresh |-> TRUE]
    /\ Load(Readable)
    /\ fetching' = Idle
    /\ UNCHANGED <<upstream, file, unsaved>>

Publish ==
    /\ upstream < MaxVersion
    /\ upstream' = upstream + 1
    /\ UNCHANGED <<cached, file, entries, index, fetching, history>>

TimePasses ==
    /\ cached.fresh \/ file.fresh
    /\ cached' = [cached EXCEPT !.fresh = FALSE]
    /\ file' = [file EXCEPT !.fresh = FALSE]
    /\ UNCHANGED <<upstream, entries, index, fetching, history>>

Restart ==
    /\ cached' = NoCache /\ entries' = Unloaded /\ index' = Unloaded
    /\ fetching' = Idle
    /\ UNCHANGED <<upstream, file, history>>

Next ==
    \/ List \/ Refresh \/ LookUp \/ ReadFile \/ Fetched \/ Written \/ FetchFails
    \/ Publish \/ TimePasses \/ Restart

----------------------------------------------------------------------------
(* Properties *)

\* What is listed is the newest catalog ever listed, through failed refreshes and starts
\* without the network, unless the last write of the cache file failed or was cut short;
\* then it is at least what the file still holds (catalog.ts:75-84, 128-136).
ListedIsNewest ==
    fetching.pc = "idle" /\ entries # Unloaded
    => entries >= IF unsaved THEN Readable ELSE newest
=============================================================================
