----------------------------- MODULE BridgeProofs -----------------------------
(***************************************************************************)
(* Proofs about the bridge's configuration and its catalog of models, for  *)
(* any keys and endpoints and any number of requests, faults and restarts. *)
(***************************************************************************)
EXTENDS Bridge, TLAPS

-----------------------------------------------------------------------------
(* The directory of the configuration *)

\* What the first process found was safe, and what is there now is private.
Good ==
    /\ TestParentAcl(found.parent)
    /\ TestNoUnprivilegedWrite(found.own, FALSE, FALSE)
    /\ TestPrivateAcl(acl.own)

Late == {"change", "serialize", "rehydrate"}

\* Nothing is loaded, changed or written before the directory was checked.
AclInv ==
    /\ acl = [parent |-> acl.parent, own |-> acl.own]
    /\ acl.parent = found.parent
    /\ acl.own = found.own \/ Good
    /\ memory.loaded => verified
    /\ op.pc \in Late => verified
    /\ backend = "dpapi" /\ (verified \/ touched) => Good

\* op and memory have the fields they are updated by.
ShapeInv ==
    /\ memory = [loaded |-> memory.loaded, config |-> memory.config]
    /\ op = [kind |-> op.kind, p |-> op.p, key |-> op.key, clear |-> op.clear, url |-> op.url,
             pc |-> op.pc, next |-> op.next, todo |-> op.todo, migrating |-> op.migrating,
             before |-> op.before, answer |-> op.answer]

LEMMA RepairedIsPrivate == ASSUME NEW a PROVE TestPrivateAcl(RepairAcl(a))
<1>1. CASE TestPrivateAcl(a)
  BY <1>1 DEF RepairAcl
<1>2. CASE ~TestPrivateAcl(a)
  <2>1. RepairAcl(a) = Acl("current", TRUE, PrivateRules)
    BY <1>2 DEF RepairAcl
  <2>2. \A rule \in PrivateRules : /\ rule.sid \in {"current", "system", "administrators"}
                                   /\ ~rule.inherited
    BY DEF PrivateRules, Rule
  <2>3. Rule("current", FullControl, FALSE) \in PrivateRules
    BY DEF PrivateRules
  <2>4. \E rule \in PrivateRules : rule.sid = "current" /\ FullControl \subseteq rule.rights
    BY <2>3 DEF Rule
  <2> QED
    BY <2>1, <2>2, <2>4 DEF TestPrivateAcl, Acl, TestNoUnprivilegedWrite, TestPrivilegedSid
<1> QED
  BY <1>1, <1>2

LEMMA EnsureDirIsSafe ==
    ASSUME AclInv, EnsureDir, UNCHANGED <<backend, found>>
    PROVE  /\ verified'
           /\ acl' = [parent |-> acl'.parent, own |-> acl'.own]
           /\ acl'.parent = found.parent
           /\ acl'.own = found.own \/ Good'
           /\ backend = "dpapi" => Good'
<1>1. CASE backend # "dpapi" \/ verified
  BY <1>1 DEF AclInv, EnsureDir, Good
<1>2. CASE backend = "dpapi" /\ ~verified
  <2>1. TestParentAcl(acl.parent) /\ AclAccepted(acl.own)
    BY <1>2 DEF EnsureDir, DirectoryAccepted
  <2>2. TestNoUnprivilegedWrite(acl.own, FALSE, FALSE)
    BY <2>1 DEF AclAccepted, TestPrivateAcl, TestRepairablePrivateAcl
  <2>3. acl' = [acl EXCEPT !.own = RepairAcl(acl.own)]
    BY <1>2 DEF EnsureDir
  <2>4. acl'.parent = acl.parent /\ acl'.own = RepairAcl(acl.own)
        /\ acl' = [parent |-> acl'.parent, own |-> acl'.own]
    BY <2>3 DEF AclInv
  <2>5. TestPrivateAcl(acl'.own)
    BY <2>4, RepairedIsPrivate
  <2>6. TestParentAcl(found.parent) /\ TestNoUnprivilegedWrite(found.own, FALSE, FALSE)
    BY <2>1, <2>2 DEF AclInv, Good
  <2> QED
    BY <2>4, <2>5, <2>6 DEF AclInv, Good, EnsureDir
<1> QED
  BY <1>1, <1>2

LEMMA SafeInit == Init => AclInv /\ ShapeInv
<1> SUFFICES ASSUME Init PROVE AclInv /\ ShapeInv
  OBVIOUS
<1>1. acl = [parent |-> acl.parent, own |-> acl.own]
  <2>1. CASE backend = "dpapi"
    BY <2>1 DEF Init
  <2>2. CASE backend # "dpapi"
    BY <2>2 DEF Init
  <2> QED
    BY <2>1, <2>2
<1> QED
  BY <1>1 DEF Init, AclInv, ShapeInv, Late, Unloaded, Idle

\* A step that leaves the directory alone writes only after it was checked.
LEMMA SameDirectory ==
    ASSUME AclInv, UNCHANGED <<backend, acl, verified, found>>,
           memory'.loaded => verified,
           op'.pc \in Late => verified,
           touched' => touched \/ verified
    PROVE  AclInv'
  BY DEF AclInv, Good, Late

LEMMA LoadPreservesSafe ==
    ASSUME AclInv, ShapeInv, LoadConfig
    PROVE  AclInv' /\ ShapeInv'
<1>1. op.pc = "load" /\ UNCHANGED <<backend, found, touched>>
  BY DEF LoadConfig
<1>2. CASE memory.loaded /\ op' = [op EXCEPT !.pc = "change"] /\ UNCHANGED <<acl, verified, memory>>
  <2>1. ShapeInv'
    BY <1>2 DEF ShapeInv
  <2>2. memory.loaded => verified
    BY DEF AclInv
  <2> QED
    BY <1>1, <1>2, <2>1, <2>2, SameDirectory
<1>3. CASE EnsureDir /\ op' = [op EXCEPT !.pc = "change"]
           /\ memory' = Cached(Hydrate(Content, secrets))
  <2>1. ShapeInv'
    BY <1>3 DEF ShapeInv, Cached
  <2> QED
    BY <1>1, <1>3, <2>1, EnsureDirIsSafe DEF AclInv
<1>4. CASE EnsureDir /\ BeginSave(Hydrate(Content, secrets), TRUE)
           /\ memory' = Cached(Hydrate(Content, secrets))
  <2>1. ShapeInv'
    BY <1>4 DEF ShapeInv, Cached, BeginSave
  <2> QED
    BY <1>1, <1>4, <2>1, EnsureDirIsSafe DEF AclInv
<1> QED
  BY <1>2, <1>3, <1>4 DEF LoadConfig

LEMMA ChangePreservesSafe ==
    ASSUME AclInv, ShapeInv, SetProvider \/ DeleteProvider \/ SetActive \/ ReadOnly \/ ChangeFails
    PROVE  AclInv' /\ ShapeInv'
<1> USE DEF Changing, ShapeInv, Cached
<1>1. verified /\ UNCHANGED <<backend, acl, verified, found>>
  BY DEF SetProvider, DeleteProvider, SetActive, ReadOnly, ChangeFails, AclInv, Late
<1>2. CASE SetProvider \/ DeleteProvider \/ SetActive
  BY <1>1, <1>2, SameDirectory DEF SetProvider, DeleteProvider, SetActive, BeginChange
<1>3. CASE ReadOnly \/ ChangeFails
  BY <1>1, <1>3, SameDirectory DEF ReadOnly, ChangeFails, Answers, Idle
<1> QED
  BY <1>2, <1>3

LEMMA SavePreservesSafe ==
    ASSUME AclInv, ShapeInv,
           \/ StoreSecret \/ StoreFails \/ WriteFile \/ WriteFails \/ Rehydrate \/ RehydrateFails
    PROVE  AclInv' /\ ShapeInv'
<1> USE DEF SaveOnly, ShapeInv, Cached
<1>1. verified /\ UNCHANGED <<backend, acl, verified, found>>
  BY DEF StoreSecret, StoreFails, WriteFile, WriteFails, Rehydrate, RehydrateFails, AclInv, Late
<1>2. CASE StoreSecret \/ WriteFile
  BY <1>1, <1>2, SameDirectory DEF StoreSecret, WriteFile
<1>3. CASE StoreFails \/ WriteFails \/ RehydrateFails
  BY <1>1, <1>3, SameDirectory DEF StoreFails, WriteFails, RehydrateFails, store, Answers, Idle
<1>4. CASE Rehydrate
  BY <1>1, <1>4, SameDirectory DEF Rehydrate, Acknowledge, Answers, Idle
<1> QED
  BY <1>2, <1>3, <1>4

LEMMA OtherPreservesSafe ==
    ASSUME AclInv, ShapeInv, Receive \/ LoadFails \/ Crash
    PROVE  AclInv' /\ ShapeInv'
<1>1. CASE Receive
  <2>1. op'.pc \notin Late /\ UNCHANGED <<backend, acl, verified, memory, found, touched>>
    BY <1>1 DEF Receive, store, Late, Idle
  <2>2. ShapeInv'
    BY <1>1, <2>1 DEF Receive, Idle, ShapeInv
  <2> QED
    BY <2>1, <2>2, SameDirectory DEF AclInv
<1>2. CASE LoadFails
  BY <1>2, SameDirectory DEF LoadFails, store, Answers, Idle, Late, AclInv, ShapeInv
<1>3. CASE Crash
  BY <1>3 DEF Crash, Unloaded, Idle, Late, AclInv, ShapeInv, Good
<1> QED
  BY <1>1, <1>2, <1>3

LEMMA SafeNext ==
    ASSUME AclInv, ShapeInv, [Next]_vars
    PROVE  AclInv' /\ ShapeInv'
<1>1. CASE Next
  BY <1>1, LoadPreservesSafe, ChangePreservesSafe, SavePreservesSafe, OtherPreservesSafe
     DEF Next, Step
<1>2. CASE UNCHANGED vars
  BY <1>2 DEF vars, store, AclInv, ShapeInv, Good
<1> QED
  BY <1>1, <1>2

\* The bridge's steps are those of its configuration, or leave the configuration alone.
LEMMA BridgeSteps ==
    /\ BridgeInit => Init
    /\ [BridgeNext]_BridgeVars => [Next]_vars
  BY DEF BridgeInit, BridgeNext, BridgeVars

LEMMA AlwaysSafe == BridgeSpec => [](AclInv /\ ShapeInv)
<1>1. AclInv /\ ShapeInv /\ [BridgeNext]_BridgeVars => (AclInv /\ ShapeInv)'
  BY SafeNext, BridgeSteps
<1>2. BridgeInit => AclInv /\ ShapeInv
  BY SafeInit, BridgeSteps
<1> QED
  BY <1>1, <1>2, PTL DEF BridgeSpec

\* No order of requests, failures and restarts makes the bridge write keys below a
\* directory that somebody else could write to when it was first seen (config.ts:87-89,
\* 130-133, 395-430).
THEOREM NothingIsAdopted == BridgeSpec => []NothingAdopted
<1>1. AclInv /\ ShapeInv => NothingAdopted
  BY DEF AclInv, Good, NothingAdopted
<1> QED
  BY <1>1, AlwaysSafe, PTL

\* Whatever is configured, a test of another endpoint of the custom provider does not get
\* the stored key (server.ts:434-450).
THEOREM StoredKeysStayHome == BridgeSpec => []StoredKeyStaysHome
<1>1. StoredKeyStaysHome
  <2> SUFFICES ASSUME NEW p \in Providers, NEW url \in Urls \cup {None},
                      TestTarget(p, None, url).ok
               PROVE  TestTarget(p, None, url) = Resolve(p, StoredOf(p))
    BY DEF StoredKeyStaysHome
  <2>1. ~Resolve(p, NewRecord).ok
    BY DEF Resolve, NewRecord
  <2>2. ~(p = "builtin" /\ url # None)
    BY <2>1 DEF TestTarget
  <2>3. p = "custom" /\ url # None => url = StoredOf(p).url
    BY <2>1 DEF TestTarget
  <2>4. p = "builtin" \/ p = "custom"
    BY DEF Providers
  <2> QED
    BY <2>2, <2>3, <2>4 DEF TestTarget, Resolve
<1> QED
  BY <1>1, PTL

-----------------------------------------------------------------------------
(* The catalog of models *)

Versions == 0 .. MaxVersion

CatalogInv ==
    /\ upstream \in Versions /\ upstream # 0
    /\ cached \in [version : Versions, fresh : BOOLEAN]
    /\ file \in [version : Versions, fresh : BOOLEAN, whole : BOOLEAN]
    /\ fetching \in [kind : {"none", "list", "refresh"}, pc : {"idle", "file", "network", "write"},
                     got : Versions]
    /\ entries \in Versions \cup {Catalog!Unloaded}
    /\ fetching.pc = "idle" /\ entries = Catalog!Unloaded => ~cached.fresh
    /\ newest \in Versions /\ unsaved \in BOOLEAN
    /\ newest <= upstream /\ file.version <= upstream /\ cached.version <= upstream
    /\ fetching.pc = "write" =>
         fetching.got <= upstream /\ fetching.got >= newest /\ fetching.got >= file.version
    /\ ~unsaved => Catalog!Readable >= newest
    /\ ListedIsNewest

LEMMA CatalogInit == Catalog!Init => CatalogInv
<1> SUFFICES ASSUME Catalog!Init PROVE CatalogInv
  OBVIOUS
<1>1. /\ upstream = 1 /\ cached = [version |-> 0, fresh |-> FALSE]
      /\ file = [version |-> 0, fresh |-> FALSE, whole |-> FALSE]
      /\ fetching = [kind |-> "none", pc |-> "idle", got |-> 0]
      /\ entries = Catalog!Unloaded /\ newest = 0 /\ unsaved = FALSE
  BY DEF Catalog!Init, Catalog!Idle, Catalog!NoCache, Catalog!NoFile, Catalog!Static
<1>2. /\ 0 \in Versions /\ 1 \in Versions
      /\ cached \in [version : Versions, fresh : BOOLEAN]
      /\ file \in [version : Versions, fresh : BOOLEAN, whole : BOOLEAN]
      /\ fetching \in [kind : {"none", "list", "refresh"},
                       pc : {"idle", "file", "network", "write"}, got : Versions]
  BY <1>1, VersionAssumption DEF Versions
<1>3. Catalog!Readable = 0
  BY <1>1 DEF Catalog!Readable, Catalog!Static
<1>4. ListedIsNewest
  BY <1>1 DEF ListedIsNewest, Catalog!ListedIsNewest
<1>5. /\ cached.fresh = FALSE /\ cached.version = 0 /\ file.version = 0
      /\ fetching.pc = "idle"
  BY <1>1
<1>6. /\ upstream \in Versions /\ upstream # 0 /\ newest \in Versions
      /\ newest <= upstream /\ file.version <= upstream /\ cached.version <= upstream
  BY <1>1, <1>2, <1>5
<1>7. Catalog!Readable >= newest
  BY <1>1, <1>3
<1>8. unsaved \in BOOLEAN
  BY <1>1
<1> QED
  BY <1>1, <1>2, <1>4, <1>5, <1>6, <1>7, <1>8 DEF CatalogInv

LEMMA ReadableTyped == CatalogInv => Catalog!Readable \in Versions
  BY VersionAssumption DEF CatalogInv, Catalog!Readable, Catalog!Static, Versions

LEMMA CatalogNext ==
    ASSUME CatalogInv, Catalog!Next
    PROVE  CatalogInv'
<1> USE VersionAssumption
    DEF CatalogInv, Versions, ListedIsNewest, Catalog!ListedIsNewest, Catalog!Load, Catalog!Idle,
        Catalog!Static, Catalog!Unloaded, Catalog!history
<1>1. CASE Catalog!List
  <2>1. fetching' = [kind |-> "list", pc |-> "file", got |-> 0]
    BY <1>1 DEF Catalog!List
  <2> QED
    BY <1>1, <2>1 DEF Catalog!List, Catalog!Readable
<1>2. CASE Catalog!Refresh
  <2>1. fetching' = [kind |-> "refresh", pc |-> "network", got |-> 0]
    BY <1>2 DEF Catalog!Refresh
  <2> QED
    BY <1>2, <2>1 DEF Catalog!Refresh, Catalog!Readable
<1>3. CASE Catalog!LookUp
  BY <1>3 DEF Catalog!LookUp, Catalog!Readable
<1>4. CASE Catalog!ReadFile
  <2>1. CASE file.fresh /\ Catalog!Readable # 0
    <3>1. entries' = file.version /\ entries' \in Versions
      BY <1>4, <2>1 DEF Catalog!ReadFile, Catalog!Readable
    <3>2. cached' = [version |-> file.version, fresh |-> TRUE]
      BY <1>4, <2>1 DEF Catalog!ReadFile, Catalog!Readable
    <3>3. cached' \in [version : Versions, fresh : BOOLEAN]
      BY <3>2
    <3> QED
      BY <1>4, <2>1, <3>1, <3>3 DEF Catalog!ReadFile, Catalog!Readable
  <2>2. CASE ~(file.fresh /\ Catalog!Readable # 0)
    <3>1. /\ fetching' = [fetching EXCEPT !.pc = "network"]
          /\ UNCHANGED <<upstream, file, cached, entries>>
      BY <1>4, <2>2 DEF Catalog!ReadFile
    <3> QED
      BY <1>4, <3>1 DEF Catalog!ReadFile, Catalog!Readable
  <2> QED
    BY <2>1, <2>2
<1>5. CASE Catalog!Fetched
  <2>1. /\ cached' = [version |-> upstream, fresh |-> TRUE]
        /\ fetching' = [kind |-> fetching.kind, pc |-> "write", got |-> upstream]
        /\ UNCHANGED <<upstream, entries, newest>>
    BY <1>5 DEF Catalog!Fetched
  <2>2. CASE UNCHANGED <<file, unsaved>>
    BY <2>1, <2>2 DEF Catalog!Readable
  <2>3. CASE file' = [file EXCEPT !.whole = FALSE] /\ unsaved' = TRUE
    <3>1. file' \in [version : Versions, fresh : BOOLEAN, whole : BOOLEAN]
          /\ file'.version = file.version
      BY <2>3
    <3> QED
      BY <2>1, <2>3, <3>1
  <2> QED
    BY <1>5, <2>2, <2>3 DEF Catalog!Fetched
<1>6. CASE Catalog!Written
  <2>1. /\ entries' = fetching.got /\ fetching' = [kind |-> "none", pc |-> "idle", got |-> 0]
        /\ newest' = IF fetching.got > newest THEN fetching.got ELSE newest
        /\ UNCHANGED <<upstream, cached>>
    BY <1>6 DEF Catalog!Written
  <2>2. /\ fetching.got \in Versions /\ fetching.got <= upstream /\ fetching.got >= newest
        /\ fetching.got >= file.version /\ newest' = fetching.got
        /\ fetching.got # Catalog!Unloaded
    BY <1>6, <2>1 DEF Catalog!Written
  <2>3. CASE file' = [version |-> fetching.got, fresh |-> TRUE, whole |-> TRUE] /\ unsaved' = FALSE
    <3>1. /\ file'.version = fetching.got /\ Catalog!Readable' = fetching.got
          /\ file' \in [version : Versions, fresh : BOOLEAN, whole : BOOLEAN]
      BY <2>2, <2>3 DEF Catalog!Readable
    <3>2. fetching' \in [kind : {"none", "list", "refresh"},
                        pc : {"idle", "file", "network", "write"}, got : Versions]
          /\ fetching'.pc = "idle"
      BY <2>1
    <3>3. unsaved' \in BOOLEAN
      BY <2>3
    <3>4. ListedIsNewest'
      BY <2>1, <2>2, <2>3, <3>1
    <3>5. /\ upstream' \in Versions /\ upstream' # 0 /\ newest' \in Versions
          /\ newest' <= upstream' /\ file'.version <= upstream' /\ cached'.version <= upstream'
          /\ cached' \in [version : Versions, fresh : BOOLEAN]
          /\ Catalog!Readable' >= newest' /\ entries' \in Versions \cup {Catalog!Unloaded}
      BY <2>1, <2>2, <2>3, <3>1
    <3>6. fetching'.pc = "idle" /\ entries' # Catalog!Unloaded'
      BY <2>1, <2>2
    <3> QED
      BY <3>1, <3>2, <3>3, <3>4, <3>5, <3>6 DEF CatalogInv
  <2>4. CASE UNCHANGED file /\ unsaved' = TRUE
    <3>1. Catalog!Readable' \in {0, file.version} /\ file.version >= 0
      BY <2>4 DEF Catalog!Readable
    <3> QED
      BY <1>6, <2>1, <2>2, <2>4, <3>1 DEF Catalog!Written
  <2> QED
    BY <1>6, <2>3, <2>4 DEF Catalog!Written
<1>7. CASE Catalog!FetchFails
  BY <1>7 DEF Catalog!FetchFails, Catalog!Readable
<1>8. CASE Catalog!Publish
  BY <1>8 DEF Catalog!Publish, Catalog!Readable
<1>9. CASE Catalog!TimePasses
  BY <1>9 DEF Catalog!TimePasses, Catalog!Readable
<1>10. CASE Catalog!Restart
  BY <1>10 DEF Catalog!Restart, Catalog!NoCache, Catalog!Readable
<1> QED
  BY <1>1, <1>2, <1>3, <1>4, <1>5, <1>6, <1>7, <1>8, <1>9, <1>10 DEF Catalog!Next

\* Whatever fails or is restarted, and in whatever order, the list of models does not fall
\* behind the newest ever listed; after a failed or unfinished write of the cache file, not
\* behind the file (catalog.ts:75-84, 128-136).
THEOREM ListedIsAlwaysNewest == BridgeSpec => []ListedIsNewest
<1>1. BridgeInit => CatalogInv
  BY CatalogInit DEF BridgeInit
<1>2. CatalogInv /\ [BridgeNext]_BridgeVars => CatalogInv'
  <2>1. ASSUME CatalogInv, UNCHANGED catalogVars PROVE CatalogInv'
    BY <2>1 DEF catalogVars, CatalogInv, ListedIsNewest, Catalog!ListedIsNewest, Catalog!Readable
  <2> QED
    BY <2>1, CatalogNext DEF BridgeNext, BridgeVars
<1>3. CatalogInv => ListedIsNewest
  BY DEF CatalogInv
<1> QED
  BY <1>1, <1>2, <1>3, PTL DEF BridgeSpec

-----------------------------------------------------------------------------
(* What a configuration means, and what storing and loading it does to that *)

IsRecord(r) == r = [key |-> r.key, ref |-> r.ref, url |-> r.url]

Known(c) == DOMAIN c.providers
RecordOf(c, p) == c.providers[p]

IsConfig(c) ==
    /\ c = [providers |-> c.providers, active |-> c.active]
    /\ Known(c) \subseteq Providers
    /\ c.providers = [p \in Known(c) |-> RecordOf(c, p)]
    /\ \A p \in Known(c) : IsRecord(RecordOf(c, p))

\* A field of a configuration, with secret store s in use or not.
KeyIn(inUse, c, s, p) ==
    IF p \notin Known(c) THEN None
    ELSE IF RecordOf(c, p).key # None THEN RecordOf(c, p).key
    ELSE IF RecordOf(c, p).ref /\ inUse THEN s[p] ELSE None

UrlIn(c, p) == IF p \in Known(c) THEN RecordOf(c, p).url ELSE None

Meaning(inUse, c, s, f) ==
    CASE f[1] = "key" -> KeyIn(inUse, c, s, f[2])
      [] f[1] = "url" -> UrlIn(c, f[2])
      [] f[1] = "active" -> c.active

KeyField(p) == <<"key", p>>
UrlField(p) == <<"url", p>>
ActiveField == <<"active">>

LEMMA KeyMeaning ==
    ASSUME NEW c, NEW s, NEW p
    PROVE  KeyOf(c, s, p) = KeyIn(UsesStore, c, s, p)
  BY DEF KeyOf, KeyIn, Known, RecordOf

LEMMA Meanings ==
    ASSUME NEW u, NEW c, NEW s, NEW p
    PROVE  /\ Meaning(u, c, s, KeyField(p)) = KeyIn(u, c, s, p)
           /\ Meaning(u, c, s, UrlField(p)) = UrlIn(c, p)
           /\ Meaning(u, c, s, ActiveField) = c.active
  BY DEF Meaning, KeyField, UrlField, ActiveField

LEMMA FieldCases ==
    ASSUME NEW f \in Fields
    PROVE  \/ \E p \in Providers : f = KeyField(p)
           \/ \E p \in Providers : f = UrlField(p)
           \/ f = ActiveField
  BY DEF Fields, KeyField, UrlField, ActiveField

\* Two configurations mean the same.
Same(u, c, s, d, t) ==
    /\ \A p \in Providers : KeyIn(u, c, s, p) = KeyIn(u, d, t, p) /\ UrlIn(c, p) = UrlIn(d, p)
    /\ c.active = d.active

LEMMA SameMeaning ==
    ASSUME NEW u, NEW c, NEW s, NEW d, NEW t, Same(u, c, s, d, t), NEW f \in Fields
    PROVE  Meaning(u, c, s, f) = Meaning(u, d, t, f)
<1>1. CASE \E p \in Providers : f = KeyField(p)
  <2>1. PICK p \in Providers : f = KeyField(p)
    BY <1>1
  <2>2. Meaning(u, c, s, KeyField(p)) = Meaning(u, d, t, KeyField(p))
    BY Meanings DEF Same
  <2> QED
    BY <2>1, <2>2
<1>2. CASE \E p \in Providers : f = UrlField(p)
  <2>1. PICK p \in Providers : f = UrlField(p)
    BY <1>2
  <2>2. Meaning(u, c, s, UrlField(p)) = Meaning(u, d, t, UrlField(p))
    BY Meanings DEF Same
  <2> QED
    BY <2>1, <2>2
<1>3. CASE f = ActiveField
  BY <1>3, Meanings DEF Same
<1> QED
  BY <1>1, <1>2, <1>3, FieldCases

LEMMA MadeConfig ==
    ASSUME NEW S \in SUBSET Providers, NEW r, NEW a, NEW c,
           r = [p \in S |-> r[p]], \A p \in S : IsRecord(r[p]),
           c = [providers |-> r, active |-> a]
    PROVE  /\ IsConfig(c) /\ Known(c) = S /\ c.active = a
           /\ \A p \in S : RecordOf(c, p) = r[p]
<1>1. c.providers = r /\ c.active = a
  OBVIOUS
<1>2. DOMAIN r = S
  OBVIOUS
<1>3. Known(c) = S /\ \A p \in S : RecordOf(c, p) = r[p]
  BY <1>1, <1>2 DEF Known, RecordOf
<1>4. [p \in S |-> RecordOf(c, p)] = [p \in S |-> r[p]]
  BY <1>3
<1> QED
  BY <1>1, <1>3, <1>4 DEF IsConfig

LEMMA EmptyIsConfig == IsConfig(EmptyConfig) /\ Known(EmptyConfig) = {}
<1> DEFINE r == [p \in {} |-> NewRecord]
<1>1. r = [p \in {} |-> r[p]] /\ EmptyConfig = [providers |-> r, active |-> None]
  BY DEF EmptyConfig
<1> HIDE DEF r
<1> QED
  BY <1>1, MadeConfig

LEMMA HydrateIs ==
    ASSUME NEW c, NEW s, IsConfig(c)
    PROVE  /\ IsConfig(Hydrate(c, s))
           /\ Known(Hydrate(c, s)) = Known(c)
           /\ Hydrate(c, s).active = c.active
           /\ \A p \in Known(c) : /\ RecordOf(Hydrate(c, s), p).key = KeyIn(UsesStore, c, s, p)
                                  /\ RecordOf(Hydrate(c, s), p).ref = RecordOf(c, p).ref
                                  /\ RecordOf(Hydrate(c, s), p).url = RecordOf(c, p).url
<1> DEFINE r(p) == [key |-> KeyOf(c, s, p), ref |-> RecordOf(c, p).ref, url |-> RecordOf(c, p).url]
           h == [p \in Known(c) |-> r(p)]
<1>1. \A p \in Known(c) : [RecordOf(c, p) EXCEPT !.key = KeyOf(c, s, p)] = r(p)
  BY DEF IsConfig, IsRecord
<1>2. Hydrate(c, s) = [providers |-> [p \in Known(c) |-> [RecordOf(c, p) EXCEPT !.key = KeyOf(c, s, p)]],
                       active |-> c.active]
  BY DEF Hydrate, IsConfig, Known, RecordOf
<1>3. Hydrate(c, s) = [providers |-> h, active |-> c.active]
  BY <1>1, <1>2
<1>4. h = [p \in Known(c) |-> h[p]] /\ \A p \in Known(c) : h[p] = r(p)
  OBVIOUS
<1>5. \A p \in Known(c) : IsRecord(r(p))
  BY DEF IsRecord
<1> HIDE DEF h
<1>6. /\ IsConfig(Hydrate(c, s)) /\ Known(Hydrate(c, s)) = Known(c)
      /\ Hydrate(c, s).active = c.active
      /\ \A p \in Known(c) : RecordOf(Hydrate(c, s), p) = r(p)
  <2>1. Known(c) \in SUBSET Providers
    BY DEF IsConfig
  <2> HIDE DEF r
  <2> QED
    BY <1>3, <1>4, <1>5, <2>1, MadeConfig
<1> QED
  BY <1>6, KeyMeaning

\* Reading the referenced keys changes no value.
LEMMA HydrateKeepsMeaning ==
    ASSUME NEW c, NEW s, IsConfig(c)
    PROVE  Same(UsesStore, Hydrate(c, s), s, c, s)
<1>1. \A p \in Providers : UrlIn(Hydrate(c, s), p) = UrlIn(c, p)
  BY HydrateIs DEF UrlIn
<1>2. \A p \in Providers : KeyIn(UsesStore, Hydrate(c, s), s, p) = KeyIn(UsesStore, c, s, p)
  BY HydrateIs DEF KeyIn
<1> QED
  BY <1>1, <1>2, HydrateIs DEF Same

\* What storing leaves in the file: no key if there is a store, and a reference for it.
LEMMA SerializedIs ==
    ASSUME NEW c, IsConfig(c)
    PROVE  /\ IsConfig(Serialized(c))
           /\ Known(Serialized(c)) = Known(c)
           /\ Serialized(c).active = c.active
           /\ \A p \in Known(c) : /\ RecordOf(Serialized(c), p) = ForFile(RecordOf(c, p))
                                  /\ RecordOf(Serialized(c), p).url = RecordOf(c, p).url
<1> DEFINE h == [p \in Known(c) |-> ForFile(RecordOf(c, p))]
<1>1. Serialized(c) = [providers |-> h, active |-> c.active]
  BY DEF Serialized, IsConfig, Known, RecordOf
<1>2. h = [p \in Known(c) |-> h[p]] /\ \A p \in Known(c) : h[p] = ForFile(RecordOf(c, p))
  OBVIOUS
<1>3. \A p \in Known(c) : /\ IsRecord(ForFile(RecordOf(c, p)))
                          /\ ForFile(RecordOf(c, p)).url = RecordOf(c, p).url
  <2> TAKE p \in Known(c)
  <2> DEFINE r == RecordOf(c, p)
  <2>1. r = [key |-> r.key, ref |-> r.ref, url |-> r.url]
    BY DEF IsConfig, IsRecord
  <2> HIDE DEF r
  <2>2. CASE UsesStore
    <3>1. ForFile(r) = [key |-> None, ref |-> r.ref \/ r.key # None, url |-> r.url]
      BY <2>1, <2>2 DEF ForFile
    <3> QED
      BY <3>1 DEF IsRecord, r
  <2>3. CASE ~UsesStore
    <3>1. ForFile(r) = [key |-> r.key, ref |-> FALSE, url |-> r.url]
      BY <2>1, <2>3 DEF ForFile
    <3> QED
      BY <3>1 DEF IsRecord, r
  <2> QED
    BY <2>2, <2>3
<1> HIDE DEF h
<1>4. Known(c) \in SUBSET Providers
  BY DEF IsConfig
<1>5. \A p \in Known(c) : IsRecord(h[p])
  BY <1>2, <1>3
<1>6. /\ IsConfig(Serialized(c)) /\ Known(Serialized(c)) = Known(c)
      /\ Serialized(c).active = c.active
      /\ \A p \in Known(c) : RecordOf(Serialized(c), p) = h[p]
  BY <1>1, <1>2, <1>4, <1>5, MadeConfig
<1> QED
  BY <1>2, <1>3, <1>6

LEMMA StoredKey ==
    ASSUME NEW c, IsConfig(c), NEW p \in Known(c)
    PROVE  LET f == RecordOf(Serialized(c), p)
               r == RecordOf(c, p) IN
           /\ UsesStore => f.key = None
           /\ UsesStore /\ (r.ref \/ r.key # None) => f.ref
           /\ UsesStore /\ ~(r.ref \/ r.key # None) => ~f.ref
           /\ ~UsesStore => f.key = r.key
<1> DEFINE r == RecordOf(c, p)
<1>1. r = [key |-> r.key, ref |-> r.ref, url |-> r.url]
  BY DEF IsConfig, IsRecord
<1>2. RecordOf(Serialized(c), p) = ForFile(r)
  BY SerializedIs
<1> HIDE DEF r
<1>3. UsesStore => ForFile(r) = [key |-> None, ref |-> r.ref \/ r.key # None, url |-> r.url]
  BY <1>1 DEF ForFile
<1>4. ~UsesStore => ForFile(r) = [key |-> r.key, ref |-> FALSE, url |-> r.url]
  BY <1>1 DEF ForFile
<1>5. UsesStore => ForFile(r).key = None
  BY <1>3
<1>6. ~UsesStore => ForFile(r).key = r.key
  BY <1>4
<1>7. UsesStore => (ForFile(r).ref <=> r.ref \/ r.key # None)
  <2>1. CASE r.ref \/ r.key # None
    <3>1. (r.ref \/ r.key # None) = TRUE
      BY <2>1
    <3>2. UsesStore => ForFile(r) = [key |-> None, ref |-> TRUE, url |-> r.url]
      BY <1>3, <3>1
    <3> QED
      BY <2>1, <3>2
  <2>2. CASE ~(r.ref \/ r.key # None)
    <3>1. (r.ref \/ r.key # None) = FALSE
      BY <2>2
    <3>2. UsesStore => ForFile(r) = [key |-> None, ref |-> FALSE, url |-> r.url]
      BY <1>3, <3>1
    <3> QED
      BY <2>2, <3>2
  <2> QED
    BY <2>1, <2>2
<1>8. RecordOf(Serialized(c), p).ref <=> ForFile(r).ref
  BY <1>2
<1>9. RecordOf(Serialized(c), p).key = ForFile(r).key
  BY <1>2
<1>10. /\ UsesStore => RecordOf(Serialized(c), p).key = None
       /\ UsesStore /\ (r.ref \/ r.key # None) => RecordOf(Serialized(c), p).ref
       /\ UsesStore /\ ~(r.ref \/ r.key # None) => ~RecordOf(Serialized(c), p).ref
       /\ ~UsesStore => RecordOf(Serialized(c), p).key = r.key
  BY <1>5, <1>6, <1>7, <1>8, <1>9
<1> QED
  BY <1>10 DEF r

LEMMA SerializedHasNoKeys ==
    ASSUME NEW c, IsConfig(c), UsesStore
    PROVE  WithKey(Serialized(c)) = {}
<1>1. \A p \in Known(c) : RecordOf(Serialized(c), p).key = None
  BY StoredKey
<1> QED
  BY <1>1, SerializedIs DEF WithKey, Known, RecordOf

\* Once every key is in the store, the file means what was to be stored.
LEMMA SerializedKeepsMeaning ==
    ASSUME NEW c, NEW s, IsConfig(c),
           UsesStore => \A p \in WithKey(c) : s[p] = RecordOf(c, p).key
    PROVE  Same(UsesStore, Serialized(c), s, c, s)
<1>1. \A p \in Providers : UrlIn(Serialized(c), p) = UrlIn(c, p)
  BY SerializedIs DEF UrlIn
<1>2. ASSUME NEW p \in Known(c)
      PROVE  KeyIn(UsesStore, Serialized(c), s, p) = KeyIn(UsesStore, c, s, p)
  <2>1. p \in Known(Serialized(c))
    BY SerializedIs
  <2>2. CASE ~UsesStore
    BY <2>1, <2>2, StoredKey DEF KeyIn
  <2>3. CASE UsesStore /\ RecordOf(c, p).key # None
    <3>1. s[p] = RecordOf(c, p).key
      BY <2>3 DEF WithKey, Known, RecordOf
    <3>2. RecordOf(Serialized(c), p).key = None /\ RecordOf(Serialized(c), p).ref
      BY <2>3, StoredKey
    <3> QED
      BY <2>1, <2>3, <3>1, <3>2 DEF KeyIn
  <2>4. CASE UsesStore /\ RecordOf(c, p).key = None
    <3>1. RecordOf(Serialized(c), p).key = None
      BY <2>4, StoredKey
    <3>2. CASE RecordOf(c, p).ref
      <4>1. RecordOf(Serialized(c), p).ref
        BY <2>4, <3>2, StoredKey
      <4> QED
        BY <2>1, <2>4, <3>1, <3>2, <4>1 DEF KeyIn
    <3>3. CASE ~RecordOf(c, p).ref
      <4>1. ~RecordOf(Serialized(c), p).ref
        BY <2>4, <3>3, StoredKey
      <4> QED
        BY <2>1, <2>4, <3>1, <3>3, <4>1 DEF KeyIn
    <3> QED
      BY <3>2, <3>3
  <2> QED
    BY <2>2, <2>3, <2>4
<1>3. \A p \in Providers : KeyIn(UsesStore, Serialized(c), s, p) = KeyIn(UsesStore, c, s, p)
  BY <1>2, SerializedIs DEF KeyIn
<1> QED
  BY <1>1, <1>3, SerializedIs DEF Same

\* A key that is stored for q changes at most the meaning of q's key.
LEMMA StoreChangesOneField ==
    ASSUME NEW u, NEW c, NEW s, NEW q \in Providers, NEW k, NEW f \in Fields,
           s = [p \in Providers |-> s[p]],
           NEW t, t = [s EXCEPT ![q] = k]
    PROVE  \/ Meaning(u, c, t, f) = Meaning(u, c, s, f)
           \/ f = KeyField(q) /\ Meaning(u, c, t, f) = k
<1>1. t[q] = k /\ \A p \in Providers \ {q} : t[p] = s[p]
  OBVIOUS
<1>2. CASE \E p \in Providers : f = KeyField(p)
  <2>1. PICK p \in Providers : f = KeyField(p)
    BY <1>2
  <2>2. CASE p # q
    <3>1. KeyIn(u, c, t, p) = KeyIn(u, c, s, p)
      BY <1>1, <2>2 DEF KeyIn
    <3> QED
      BY <2>1, <3>1, Meanings
  <2>3. CASE p = q
    <3>1. KeyIn(u, c, t, p) = KeyIn(u, c, s, p) \/ KeyIn(u, c, t, p) = k
      BY <1>1, <2>3 DEF KeyIn
    <3> QED
      BY <2>1, <2>3, <3>1, Meanings
  <2> QED
    BY <2>2, <2>3
<1>3. CASE \E p \in Providers : f = UrlField(p)
  BY <1>3, Meanings
<1>4. CASE f = ActiveField
  BY <1>4, Meanings
<1> QED
  BY <1>2, <1>3, <1>4, FieldCases

-----------------------------------------------------------------------------
(* The configurations in memory, in the file and on their way there *)

ConfigInv ==
    /\ IsConfig(memory.config) /\ IsConfig(op.next) /\ IsConfig(disk.config)
    /\ secrets = [p \in Providers |-> secrets[p]]
    /\ op.todo \subseteq WithKey(op.next)
    /\ op.pc # "idle" => op.answer = "none"
    /\ op.pc # "idle" /\ op.kind \in {"set", "delete"} => op.p \in Providers

LEMMA ConfigAndIs ==
    ASSUME IsConfig(memory.config), NEW p \in Providers, NEW r, IsRecord(r)
    PROVE  /\ IsConfig(ConfigAnd(p, r))
           /\ Known(ConfigAnd(p, r)) = Known(memory.config) \cup {p}
           /\ ConfigAnd(p, r).active = memory.config.active
           /\ RecordOf(ConfigAnd(p, r), p) = r
           /\ \A q \in Known(memory.config) \ {p} :
                 RecordOf(ConfigAnd(p, r), q) = RecordOf(memory.config, q)
<1> DEFINE c == memory.config
           S == Known(c) \cup {p}
           h == [q \in S |-> IF q = p THEN r ELSE RecordOf(c, q)]
<1>1. ConfigAnd(p, r) = [providers |-> h, active |-> c.active]
  BY DEF ConfigAnd, IsConfig, Known, RecordOf
<1>2. h = [q \in S |-> h[q]] /\ h[p] = r /\ \A q \in Known(c) \ {p} : h[q] = RecordOf(c, q)
  OBVIOUS
<1>3. \A q \in S : IsRecord(h[q])
  BY DEF IsConfig
<1>4. S \in SUBSET Providers
  BY DEF IsConfig
<1> HIDE DEF h
<1>5. IsConfig(ConfigAnd(p, r)) /\ Known(ConfigAnd(p, r)) = S
      /\ ConfigAnd(p, r).active = c.active
      /\ \A q \in S : RecordOf(ConfigAnd(p, r), q) = h[q]
  BY <1>1, <1>2, <1>3, <1>4, MadeConfig
<1> QED
  BY <1>2, <1>5

LEMMA ConfigWithoutIs ==
    ASSUME IsConfig(memory.config), NEW p
    PROVE  /\ IsConfig(ConfigWithout(p))
           /\ Known(ConfigWithout(p)) = Known(memory.config) \ {p}
           /\ ConfigWithout(p).active = IF memory.config.active = p THEN None
                                        ELSE memory.config.active
           /\ \A q \in Known(memory.config) \ {p} :
                 RecordOf(ConfigWithout(p), q) = RecordOf(memory.config, q)
<1> DEFINE c == memory.config
           S == Known(c) \ {p}
           h == [q \in S |-> RecordOf(c, q)]
           a == IF c.active = p THEN None ELSE c.active
<1>1. ConfigWithout(p) = [providers |-> h, active |-> a]
  BY DEF ConfigWithout, Known, RecordOf
<1>2. h = [q \in S |-> h[q]] /\ \A q \in S : h[q] = RecordOf(c, q)
  OBVIOUS
<1>3. \A q \in S : IsRecord(h[q])
  BY DEF IsConfig
<1>4. S \in SUBSET Providers
  BY DEF IsConfig
<1> HIDE DEF h, a
<1>5. IsConfig(ConfigWithout(p)) /\ Known(ConfigWithout(p)) = S
      /\ ConfigWithout(p).active = a
      /\ \A q \in S : RecordOf(ConfigWithout(p), q) = h[q]
  BY <1>1, <1>2, <1>3, <1>4, MadeConfig
<1> QED
  BY <1>2, <1>5 DEF a

LEMMA ActivatedIs ==
    ASSUME NEW c, IsConfig(c), NEW a, NEW d, d = [c EXCEPT !.active = a]
    PROVE  /\ IsConfig(d) /\ Known(d) = Known(c) /\ d.active = a
           /\ \A q \in Known(c) : RecordOf(d, q) = RecordOf(c, q)
<1>1. d = [providers |-> c.providers, active |-> a]
  BY DEF IsConfig
<1>2. d.providers = c.providers /\ d.active = a
  BY <1>1
<1> HIDE DEF IsRecord
<1> QED
  BY <1>1, <1>2 DEF IsConfig, Known, RecordOf

LEMMA ConfigInit == Init => ConfigInv
<1> SUFFICES ASSUME Init PROVE ConfigInv
  OBVIOUS
<1>1. IsConfig(disk.config)
  <2>1. CASE disk = [state |-> "absent", config |-> EmptyConfig]
    BY <2>1, EmptyIsConfig
  <2>2. CASE \E p \in Providers : disk = Whole(Legacy(p))
    <3>1. PICK p \in Providers : disk = Whole(Legacy(p))
      BY <2>2
    <3> DEFINE r == [key |-> CHOOSE k \in Keys : TRUE, ref |-> FALSE,
                     url |-> IF p = "custom" THEN CHOOSE u \in Urls : TRUE ELSE None]
               h == [q \in {p} |-> r]
    <3>1a. Legacy(p) = [EmptyConfig EXCEPT !.providers = h]
      BY Zenon DEF Legacy
    <3>3. IsRecord(r)
      BY DEF IsRecord
    <3>4. h = [q \in {p} |-> h[q]] /\ h[p] = r
      OBVIOUS
    <3> HIDE DEF h, r
    <3>2. Legacy(p) = [providers |-> h, active |-> None]
      BY <3>1a DEF EmptyConfig
    <3>5. IsConfig(Legacy(p))
      BY <3>2, <3>3, <3>4, MadeConfig
    <3>6. disk.config = Legacy(p)
      BY <3>1 DEF Whole
    <3> QED
      BY <3>5, <3>6
  <2> QED
    BY <2>1, <2>2 DEF Init
<1>2. IsConfig(memory.config) /\ IsConfig(op.next) /\ op.todo = {} /\ op.pc = "idle"
  BY EmptyIsConfig DEF Init, Unloaded, Idle
<1>3. secrets = [p \in Providers |-> secrets[p]]
  BY DEF Init
<1> QED
  BY <1>1, <1>2, <1>3 DEF ConfigInv

LEMMA ContentIsConfig == ConfigInv => IsConfig(Content)
  BY EmptyIsConfig DEF ConfigInv, Content

\* ConfigInv speaks of these parts of the state only.
LEMMA ConfigStep ==
    ASSUME IsConfig(memory'.config), IsConfig(op'.next), IsConfig(disk'.config),
           secrets' = [p \in Providers |-> secrets'[p]],
           op'.todo \subseteq WithKey(op'.next),
           op'.pc # "idle" => op'.answer = "none",
           op'.pc # "idle" /\ op'.kind \in {"set", "delete"} => op'.p \in Providers
    PROVE  ConfigInv'
  BY DEF ConfigInv

LEMMA ReceivedConfig ==
    ASSUME ConfigInv, Receive
    PROVE  ConfigInv'
<1>1. UNCHANGED <<memory, disk, secrets>>
  BY DEF Receive, store
<1>2. PICK r \in Requests :
          \/ op' = [Idle EXCEPT !.kind = r.kind, !.answer = "refused"]
          \/ op' = [Idle EXCEPT !.kind = r.kind, !.p = r.p, !.key = r.key, !.clear = r.clear,
                                !.url = IF r.p = "builtin" THEN "keep" ELSE r.url,
                                !.pc = "load"]
  BY DEF Receive
<1>3. op'.next = EmptyConfig /\ op'.todo = {}
  BY <1>2 DEF Idle
<1>4. op'.pc # "idle" => op'.answer = "none" /\ op'.kind = r.kind /\ op'.p = r.p
  BY <1>2 DEF Idle
<1>5. r.kind \in {"set", "delete"} => r.p \in Providers
  BY DEF Requests
<1> QED
  BY <1>1, <1>3, <1>4, <1>5, EmptyIsConfig, ConfigStep DEF ConfigInv

LEMMA LoadedConfig ==
    ASSUME ConfigInv, ShapeInv, LoadConfig
    PROVE  ConfigInv'
<1> DEFINE c == Hydrate(Content, secrets)
<1>1. UNCHANGED <<disk, secrets>> /\ op.pc = "load" /\ IsConfig(c)
  BY ContentIsConfig, HydrateIs DEF LoadConfig
<1> HIDE DEF c
<1>2. CASE memory' = memory /\ op' = [op EXCEPT !.pc = "change"]
  <2>1. op'.next = op.next /\ op'.todo = op.todo /\ op'.answer = op.answer
        /\ op'.kind = op.kind /\ op'.p = op.p
    BY <1>2 DEF ShapeInv
  <2> QED
    BY <1>1, <1>2, <2>1, ConfigStep DEF ConfigInv
<1>3. CASE memory' = Cached(c) /\ op' = [op EXCEPT !.pc = "change"]
  <2>1. op'.next = op.next /\ op'.todo = op.todo /\ op'.answer = op.answer
        /\ op'.kind = op.kind /\ op'.p = op.p /\ memory'.config = c
    BY <1>3 DEF ShapeInv, Cached
  <2> QED
    BY <1>1, <2>1, ConfigStep DEF ConfigInv
<1>4. CASE memory' = Cached(c) /\ BeginSave(c, TRUE)
  <2>1. op'.next = c /\ op'.todo \subseteq WithKey(c) /\ op'.answer = op.answer
        /\ op'.kind = op.kind /\ op'.p = op.p /\ memory'.config = c
    BY <1>4 DEF ShapeInv, Cached, BeginSave
  <2> QED
    BY <1>1, <2>1, ConfigStep DEF ConfigInv
<1> QED
  BY <1>2, <1>3, <1>4 DEF LoadConfig, c

\* What a request makes of the configuration in memory.
Changed ==
    IF op.kind = "set" THEN ConfigAnd(op.p, Updated(StoredOf(op.p)))
    ELSE IF op.kind = "delete" THEN ConfigWithout(op.p)
    ELSE [memory.config EXCEPT !.active = op.p]

Change == SetProvider \/ DeleteProvider \/ SetActive

LEMMA ChangeIs ==
    ASSUME ShapeInv, Change
    PROVE  /\ op.pc = "change" /\ op.kind \in {"set", "delete", "activate"}
           /\ op.kind = "set" => ~ClearWithKey(op)
           /\ BeginChange(Changed)
           /\ memory'.config = memory.config \/ memory'.config = Changed
           /\ memory.loaded => memory'.loaded
           /\ UNCHANGED <<backend, disk>>
<1>1. CASE SetProvider
  BY <1>1 DEF SetProvider, Changing, Changed
<1>2. CASE DeleteProvider
  <2>1. BeginChange(Changed) /\ memory' = Cached(Changed)
    BY <1>2 DEF DeleteProvider, Changed
  <2> QED
    BY <1>2, <2>1 DEF DeleteProvider, Changing, Cached
<1>3. CASE SetActive
  BY <1>3 DEF SetActive, Changing, Changed, ShapeInv
<1> QED
  BY <1>1, <1>2, <1>3 DEF Change

LEMMA StoredIsRecord ==
    ASSUME IsConfig(memory.config), NEW p
    PROVE  IsRecord(StoredOf(p))
<1>1. CASE p \in Known(memory.config)
  BY <1>1 DEF StoredOf, IsConfig, Known, RecordOf
<1>2. CASE p \notin Known(memory.config)
  BY <1>2 DEF StoredOf, NewRecord, IsRecord, Known
<1> QED
  BY <1>1, <1>2

LEMMA UpdatedIs ==
    ASSUME NEW r
    PROVE  /\ IsRecord(Updated(r))
           /\ Updated(r).key = IF op.clear THEN None ELSE IF op.key # None THEN op.key ELSE r.key
           /\ Updated(r).url = IF op.url = "keep" THEN r.url ELSE op.url
           /\ Updated(r).ref => r.ref /\ ~op.clear
           /\ ~Updated(r).ref => ~r.ref \/ op.clear
<1>1. IsRecord(Updated(r))
  BY DEF Updated, IsRecord
<1>2. Updated(r).key = IF op.clear THEN None ELSE IF op.key # None THEN op.key ELSE r.key
  BY DEF Updated
<1>3. Updated(r).url = IF op.url = "keep" THEN r.url ELSE op.url
  BY DEF Updated
<1>4. Updated(r).ref = (r.ref /\ ~op.clear)
  BY DEF Updated
<1> QED
  BY <1>1, <1>2, <1>3, <1>4

LEMMA ChangedIsConfig ==
    ASSUME ConfigInv, op.pc = "change", op.kind \in {"set", "delete", "activate"}
    PROVE  IsConfig(Changed)
<1>1. CASE op.kind = "set"
  <2>1. op.p \in Providers /\ IsRecord(Updated(StoredOf(op.p)))
    BY <1>1, UpdatedIs DEF ConfigInv
  <2> QED
    BY <1>1, <2>1, ConfigAndIs DEF Changed, ConfigInv
<1>2. CASE op.kind = "delete"
  BY <1>2, ConfigWithoutIs DEF Changed, ConfigInv
<1>3. CASE op.kind = "activate"
  BY <1>3, ActivatedIs DEF Changed, ConfigInv
<1> QED
  BY <1>1, <1>2, <1>3

LEMMA ForgottenIs ==
    ASSUME ConfigInv, op.pc = "change"
    PROVE  /\ Forgotten = [p \in Providers |-> Forgotten[p]]
           /\ \/ Forgotten = secrets /\ ~(Forgets /\ UsesStore)
              \/ Forgotten = [secrets EXCEPT ![op.p] = None] /\ op.p \in Providers /\ Forgets /\ UsesStore
  BY DEF Forgotten, Forgets, ConfigInv

LEMMA ChangedConfig ==
    ASSUME ConfigInv, ShapeInv, Change
    PROVE  ConfigInv'
<1>1. IsConfig(Changed)
  BY ChangeIs, ChangedIsConfig
<1>2. /\ op'.next = Changed /\ op'.todo \subseteq WithKey(Changed) /\ op'.answer = op.answer
      /\ op'.kind = op.kind /\ op'.p = op.p
  BY ChangeIs DEF BeginChange, ShapeInv
<1>3. secrets' = [p \in Providers |-> secrets'[p]]
  BY ChangeIs, ForgottenIs DEF BeginChange
<1>4. op'.answer = "none" /\ (op'.kind \in {"set", "delete"} => op'.p \in Providers)
  BY <1>2, ChangeIs DEF ConfigInv
<1>5. IsConfig(memory'.config) /\ IsConfig(disk'.config)
  BY <1>1, ChangeIs DEF ConfigInv
<1> QED
  BY <1>1, <1>2, <1>3, <1>4, <1>5, ConfigStep

LEMMA AnswersIs ==
    ASSUME NEW word, Answers(word)
    PROVE  /\ op'.pc = "idle" /\ op'.next = EmptyConfig /\ op'.todo = {} /\ op'.answer = word
           /\ op'.kind = op.kind
  BY DEF Answers, Idle

LEMMA AnsweredConfig ==
    ASSUME ConfigInv, NEW word, Answers(word),
           IsConfig(memory'.config), IsConfig(disk'.config),
           secrets' = [p \in Providers |-> secrets'[p]]
    PROVE  ConfigInv'
  BY AnswersIs, EmptyIsConfig, ConfigStep

LEMMA FailedConfig ==
    ASSUME ConfigInv,
           \/ LoadFails \/ ReadOnly \/ ChangeFails \/ StoreFails \/ WriteFails \/ RehydrateFails
    PROVE  ConfigInv'
<1> USE DEF SaveOnly, store, Changing
<1>1. CASE LoadFails \/ ReadOnly \/ RehydrateFails
  <2>1. UNCHANGED <<memory, disk, secrets>> /\ (Answers("error") \/ Answers("ok"))
    BY <1>1 DEF LoadFails, ReadOnly, RehydrateFails
  <2> QED
    BY <2>1, AnsweredConfig DEF ConfigInv
<1>2. CASE ChangeFails
  <2>1. UNCHANGED <<memory, disk>> /\ Answers("error") /\ op.pc = "change"
        /\ secrets' \in {secrets, Forgotten}
    BY <1>2 DEF ChangeFails
  <2> QED
    BY <2>1, AnsweredConfig, ForgottenIs DEF ConfigInv
<1>3. CASE StoreFails
  <2>1. UNCHANGED <<memory, disk>> /\ Answers("error")
    BY <1>3 DEF StoreFails
  <2>2. PICK p \in op.todo : secrets' \in {secrets, [secrets EXCEPT ![p] = op.next.providers[p].key]}
    BY <1>3 DEF StoreFails
  <2>3. secrets' = [q \in Providers |-> secrets'[q]]
    BY <2>2 DEF ConfigInv
  <2> QED
    BY <2>1, <2>3, AnsweredConfig DEF ConfigInv
<1>4. CASE WriteFails
  <2>1. UNCHANGED <<memory, secrets>> /\ Answers("error")
        /\ disk' \in {disk, Whole(Serialized(op.next))}
    BY <1>4 DEF WriteFails
  <2>2. IsConfig(disk'.config)
    BY <2>1, SerializedIs DEF ConfigInv, Whole
  <2> QED
    BY <2>1, <2>2, AnsweredConfig DEF ConfigInv
<1> QED
  BY <1>1, <1>2, <1>3, <1>4

LEMMA SavedConfig ==
    ASSUME ConfigInv, ShapeInv, StoreSecret \/ WriteFile \/ Rehydrate
    PROVE  ConfigInv'
<1> USE DEF SaveOnly
<1>1. CASE StoreSecret
  <2>1. PICK p \in op.todo : /\ secrets' = [secrets EXCEPT ![p] = op.next.providers[p].key]
                             /\ op' = [op EXCEPT !.todo = @ \ {p}]
    BY <1>1 DEF StoreSecret
  <2>2. op'.next = op.next /\ op'.todo = op.todo \ {p} /\ op'.answer = op.answer
        /\ op'.kind = op.kind /\ op'.p = op.p /\ op'.pc = op.pc
    BY <2>1 DEF ShapeInv
  <2>3. secrets' = [q \in Providers |-> secrets'[q]]
    BY <2>1 DEF ConfigInv
  <2> QED
    BY <1>1, <2>2, <2>3, ConfigStep DEF ConfigInv, StoreSecret
<1>2. CASE WriteFile
  <2>1. op'.next = op.next /\ op'.todo = op.todo /\ op'.answer = op.answer
        /\ op'.kind = op.kind /\ op'.p = op.p /\ op.pc # "idle"
    BY <1>2 DEF ShapeInv, WriteFile
  <2>2. IsConfig(disk'.config)
    BY <1>2, SerializedIs DEF ConfigInv, Whole, WriteFile
  <2>3. UNCHANGED <<memory, secrets>>
    BY <1>2 DEF WriteFile
  <2> QED
    BY <2>1, <2>2, <2>3, ConfigStep DEF ConfigInv
<1>3. CASE Rehydrate
  <2>1. memory'.config = Hydrate(Serialized(op.next), secrets) /\ UNCHANGED <<disk, secrets>>
    BY <1>3 DEF Rehydrate, Cached
  <2>2. IsConfig(memory'.config)
    BY <2>1, SerializedIs, HydrateIs DEF ConfigInv
  <2>3. CASE op' = [op EXCEPT !.pc = "change"]
    <3>1. op'.next = op.next /\ op'.todo = op.todo /\ op'.answer = op.answer
          /\ op'.kind = op.kind /\ op'.p = op.p /\ op.pc # "idle"
      BY <1>3, <2>3 DEF ShapeInv, Rehydrate
    <3> QED
      BY <2>1, <2>2, <3>1, ConfigStep DEF ConfigInv
  <2>4. CASE Answers("ok")
    BY <2>1, <2>2, <2>4, AnsweredConfig DEF ConfigInv
  <2> QED
    BY <1>3, <2>3, <2>4 DEF Rehydrate, Acknowledge
<1> QED
  BY <1>1, <1>2, <1>3

LEMMA ConfigNext ==
    ASSUME ConfigInv, ShapeInv, [Next]_vars
    PROVE  ConfigInv'
<1>1. CASE Crash
  <2>1. UNCHANGED <<disk, secrets>> /\ memory'.config = EmptyConfig
        /\ op'.next = EmptyConfig /\ op'.todo = {} /\ op'.pc = "idle"
    BY <1>1 DEF Crash, Unloaded, Idle
  <2> QED
    BY <2>1, EmptyIsConfig, ConfigStep DEF ConfigInv
<1>2. CASE UNCHANGED vars
  BY <1>2 DEF vars, store, ConfigInv
<1>3. CASE Step
  BY <1>3, LoadedConfig, ChangedConfig, FailedConfig, SavedConfig DEF Step, Change
<1> QED
  BY <1>1, <1>2, <1>3, ReceivedConfig DEF Next

-----------------------------------------------------------------------------
(* No key in the file *)

\* From the time the file is written until the answer is given no key is in it.
KeysInv ==
    /\ op.pc = "idle" \/ op.answer = "none"
    /\ UsesStore /\ (op.pc = "rehydrate" \/ (op.answer = "ok" /\ op.kind # "read"))
         => WithKey(Content) = {}

LEMMA StoreInUseSame == UNCHANGED backend => UsesStore' = UsesStore
  BY DEF UsesStore

LEMMA ContentSame == UNCHANGED disk => Content' = Content
  BY DEF Content

LEMMA WithKeySame == UNCHANGED disk => WithKey(Content)' = WithKey(Content)
  BY DEF Content, WithKey

LEMMA KeysStep ==
    ASSUME KeysInv, UNCHANGED <<backend, disk>>, op'.pc = "idle" \/ op'.answer = "none",
           op'.pc # "rehydrate" \/ op.pc = "rehydrate",
           op'.answer = "ok" => op'.kind = "read" \/ op.pc = "rehydrate"
    PROVE  KeysInv'
  BY StoreInUseSame, WithKeySame DEF KeysInv

LEMMA KeysNext ==
    ASSUME KeysInv, ConfigInv, ShapeInv, [Next]_vars
    PROVE  KeysInv'
<1> USE DEF SaveOnly, store, Changing
<1>1. CASE Receive
  <2>1. op'.answer # "ok" /\ op'.pc # "rehydrate" /\ (op'.pc = "idle" \/ op'.answer = "none")
    BY <1>1 DEF Receive, Idle
  <2> QED
    BY <1>1, <2>1, KeysStep DEF Receive
<1>2. CASE Crash
  BY <1>2, KeysStep DEF Crash, Idle
<1>3. CASE LoadConfig
  <2>1. op.pc = "load" /\ op'.pc # "rehydrate" /\ op'.answer = op.answer /\ UNCHANGED <<backend, disk>>
    BY <1>3 DEF LoadConfig, BeginSave, ShapeInv
  <2> QED
    BY <2>1, KeysStep DEF KeysInv
<1>4. CASE Change
  <2>1. op.pc = "change" /\ op'.pc # "rehydrate" /\ op'.answer = op.answer /\ UNCHANGED <<backend, disk>>
    BY <1>4, ChangeIs DEF BeginChange, ShapeInv
  <2> QED
    BY <2>1, KeysStep DEF KeysInv
<1>5. CASE LoadFails \/ ReadOnly \/ ChangeFails \/ StoreFails \/ RehydrateFails
  <2>1. UNCHANGED <<backend, disk>>
    BY <1>5 DEF LoadFails, ReadOnly, ChangeFails, StoreFails, RehydrateFails
  <2>2. Answers("error") \/ (Answers("ok") /\ op.kind = "read")
    BY <1>5 DEF LoadFails, ReadOnly, ChangeFails, StoreFails, RehydrateFails
  <2> QED
    BY <2>1, <2>2, AnswersIs, KeysStep
<1>6. CASE WriteFails
  BY <1>6, AnswersIs DEF WriteFails, KeysInv
<1>7. CASE StoreSecret
  <2>1. op'.pc = op.pc /\ op'.answer = op.answer /\ op.pc = "serialize" /\ UNCHANGED <<backend, disk>>
    BY <1>7 DEF StoreSecret, ShapeInv
  <2> QED
    BY <2>1, KeysStep DEF KeysInv
<1>8. CASE WriteFile
  <2>1. UNCHANGED backend /\ disk' = Whole(Serialized(op.next)) /\ op.pc = "serialize"
        /\ op'.answer = op.answer
    BY <1>8 DEF WriteFile, ShapeInv
  <2>2. WithKey(Content)' = WithKey(Serialized(op.next))
    BY <2>1 DEF Content, Whole, WithKey
  <2>3. UsesStore => WithKey(Serialized(op.next)) = {}
    BY SerializedHasNoKeys DEF ConfigInv
  <2> QED
    BY <2>1, <2>2, <2>3, StoreInUseSame DEF KeysInv
<1>9. CASE Rehydrate
  <2>1. op.pc = "rehydrate" /\ UNCHANGED <<backend, disk>>
    BY <1>9 DEF Rehydrate
  <2>2. (op'.pc = "change" /\ op'.answer = op.answer) \/ Answers("ok")
    BY <1>9 DEF Rehydrate, Acknowledge, ShapeInv
  <2> QED
    BY <2>1, <2>2, AnswersIs, KeysStep DEF KeysInv
<1>10. CASE UNCHANGED vars
  BY <1>10, StoreInUseSame, WithKeySame DEF vars, KeysInv
<1> QED
  BY <1>1, <1>2, <1>3, <1>4, <1>5, <1>6, <1>7, <1>8, <1>9, <1>10 DEF Next, Step, Change

-----------------------------------------------------------------------------
(* Values: what the file, the memory and the configuration under way mean *)

Saving == op.pc \in {"serialize", "rehydrate"}

\* At any time, not only between requests, a reload finds possible values.
FileKnown == \A f \in Fields : Meaning(UsesStore, Content, secrets, f) \in possible[f]

MemoryKnown ==
    memory.loaded =>
        \A f \in Fields : Meaning(UsesStore, memory.config, secrets, f) \in possible[f]

NextKnown ==
    Saving => \A f \in Fields : Meaning(UsesStore, op.next, secrets, f) \in possible[f]

\* What is saved is what was asked for, given what there was before.
NextAsked ==
    Saving /\ ~op.migrating =>
        \A f \in Fields : \E v \in op.before[f] :
            Meaning(UsesStore, op.next, secrets, f) = Intended(op, f, v)

KeysStored ==
    Saving /\ UsesStore =>
        \A p \in WithKey(op.next) \ op.todo : secrets[p] = RecordOf(op.next, p).key

FileWritten ==
    op.pc = "rehydrate" =>
        /\ op.todo = {}
        /\ \A f \in Fields : Meaning(UsesStore, Content, secrets, f)
                             = Meaning(UsesStore, op.next, secrets, f)

LateLoaded == op.pc \in Late => memory.loaded

ValueInv ==
    /\ FileKnown /\ MemoryKnown /\ NextKnown /\ NextAsked
    /\ KeysStored /\ FileWritten /\ LateLoaded

LEMMA FieldsDistinct ==
    ASSUME NEW p, NEW q
    PROVE  /\ KeyField(p) = KeyField(q) <=> p = q
           /\ UrlField(p) = UrlField(q) <=> p = q
           /\ KeyField(p) # UrlField(q) /\ KeyField(p) # ActiveField /\ UrlField(p) # ActiveField
  BY DEF KeyField, UrlField, ActiveField

\* What a request is to do, by its kind.
LEMMA IntendedIs ==
    ASSUME NEW r, NEW f, NEW v
    PROVE  /\ r.kind = "set" /\ f = KeyField(r.p) =>
                Intended(r, f, v) = IF r.clear THEN None ELSE IF r.key # None THEN r.key ELSE v
           /\ r.kind = "set" /\ f = UrlField(r.p) =>
                Intended(r, f, v) = IF r.url = "keep" THEN v ELSE r.url
           /\ r.kind = "set" /\ f # KeyField(r.p) /\ f # UrlField(r.p) => Intended(r, f, v) = v
           /\ r.kind = "delete" /\ f \in {KeyField(r.p), UrlField(r.p)} => Intended(r, f, v) = None
           /\ r.kind = "delete" /\ f = ActiveField =>
                Intended(r, f, v) = IF v = r.p THEN None ELSE v
           /\ r.kind = "delete" /\ f \notin {KeyField(r.p), UrlField(r.p), ActiveField} =>
                Intended(r, f, v) = v
           /\ r.kind = "activate" /\ f = ActiveField => Intended(r, f, v) = r.p
           /\ r.kind = "activate" /\ f # ActiveField => Intended(r, f, v) = v
<1> DEFINE k == KeyField(r.p)
           u == UrlField(r.p)
           a == ActiveField
<1>1. Intended(r, f, v) =
        CASE r.kind = "set" /\ f = k -> IF r.clear THEN None ELSE IF r.key # None THEN r.key ELSE v
          [] r.kind = "set" /\ f = u -> IF r.url = "keep" THEN v ELSE r.url
          [] r.kind = "delete" /\ f \in {k, u} -> None
          [] r.kind = "delete" /\ f = a -> IF v = r.p THEN None ELSE v
          [] r.kind = "activate" /\ f = a -> r.p
          [] OTHER -> v
  BY Zenon DEF Intended, KeyField, UrlField, ActiveField
<1>2. k # u /\ k # a /\ u # a
  BY FieldsDistinct
<1> HIDE DEF k, u, a
<1>3. /\ r.kind = "set" /\ f = k =>
           Intended(r, f, v) = IF r.clear THEN None ELSE IF r.key # None THEN r.key ELSE v
      /\ r.kind = "set" /\ f = u => Intended(r, f, v) = IF r.url = "keep" THEN v ELSE r.url
      /\ r.kind = "set" /\ f # k /\ f # u => Intended(r, f, v) = v
      /\ r.kind = "delete" /\ f \in {k, u} => Intended(r, f, v) = None
      /\ r.kind = "delete" /\ f = a => Intended(r, f, v) = IF v = r.p THEN None ELSE v
      /\ r.kind = "delete" /\ f \notin {k, u, a} => Intended(r, f, v) = v
      /\ r.kind = "activate" /\ f = a => Intended(r, f, v) = r.p
      /\ r.kind = "activate" /\ f # a => Intended(r, f, v) = v
  BY <1>1, <1>2
<1> QED
  BY <1>3 DEF k, u, a

LEMMA IntendedSame ==
    ASSUME NEW r, NEW q, NEW f, NEW v,
           r.kind = q.kind, r.p = q.p, r.key = q.key, r.clear = q.clear, r.url = q.url
    PROVE  Intended(r, f, v) = Intended(q, f, v)
  BY DEF Intended

LEMMA ForgottenMeaning ==
    ASSUME ConfigInv, op.pc = "change", NEW c, NEW f \in Fields
    PROVE  \/ Meaning(UsesStore, c, Forgotten, f) = Meaning(UsesStore, c, secrets, f)
           \/ Forgets /\ f = KeyField(op.p) /\ Meaning(UsesStore, c, Forgotten, f) = None
<1>1. CASE Forgotten = secrets
  BY <1>1
<1>2. CASE Forgotten = [secrets EXCEPT ![op.p] = None] /\ op.p \in Providers /\ Forgets
  <2> DEFINE t == Forgotten
  <2>1. t = [secrets EXCEPT ![op.p] = None]
    BY <1>2
  <2>2. secrets = [p \in Providers |-> secrets[p]]
    BY DEF ConfigInv
  <2> HIDE DEF t
  <2>3. \/ Meaning(UsesStore, c, t, f) = Meaning(UsesStore, c, secrets, f)
        \/ f = KeyField(op.p) /\ Meaning(UsesStore, c, t, f) = None
    BY <1>2, <2>1, <2>2, StoreChangesOneField
  <2> QED
    BY <1>2, <2>3 DEF t
<1> QED
  BY <1>1, <1>2, ForgottenIs

LEMMA ForgettingIsIntended ==
    ASSUME Forgets, NEW v
    PROVE  Intended(op, KeyField(op.p), v) = None
  BY IntendedIs DEF Forgets

\* A provider the request is not about keeps its key and its endpoint.
LEMMA OtherKeyForgotten ==
    ASSUME ConfigInv, op.pc = "change", NEW c, NEW p \in Providers, p # op.p
    PROVE  KeyIn(UsesStore, c, Forgotten, p) = KeyIn(UsesStore, c, secrets, p)
<1>1. Forgotten[p] = secrets[p]
  BY ForgottenIs DEF ConfigInv
<1> QED
  BY <1>1 DEF KeyIn

LEMMA StoredMeaning ==
    ASSUME NEW p
    PROVE  /\ UrlIn(memory.config, p) = StoredOf(p).url
           /\ StoredOf(p).key # None => KeyIn(UsesStore, memory.config, secrets, p) = StoredOf(p).key
           /\ StoredOf(p).key = None /\ StoredOf(p).ref /\ UsesStore
                => KeyIn(UsesStore, memory.config, secrets, p) = secrets[p]
           /\ StoredOf(p).key = None /\ ~(StoredOf(p).ref /\ UsesStore)
                => KeyIn(UsesStore, memory.config, secrets, p) = None
<1>1. CASE p \in Known(memory.config)
  BY <1>1 DEF StoredOf, UrlIn, KeyIn, Known, RecordOf
<1>2. CASE p \notin Known(memory.config)
  <2>1. StoredOf(p) = NewRecord
    BY <1>2 DEF StoredOf, Known
  <2>2. NewRecord.key = None /\ NewRecord.url = None /\ ~NewRecord.ref
    BY DEF NewRecord
  <2> QED
    BY <1>2, <2>1, <2>2 DEF UrlIn, KeyIn
<1> QED
  BY <1>1, <1>2

LEMMA SetMeaning ==
    ASSUME ConfigInv, op.pc = "change", op.kind = "set", ~ClearWithKey(op), NEW f \in Fields
    PROVE  Meaning(UsesStore, Changed, Forgotten, f)
           = Intended(op, f, Meaning(UsesStore, memory.config, secrets, f))
<1> DEFINE c == memory.config
           d == Changed
           r == Updated(StoredOf(op.p))
<1>1. op.p \in Providers /\ ~(op.clear /\ op.key # None) /\ IsRecord(r)
  BY UpdatedIs DEF ConfigInv, ClearWithKey
<1>2. /\ Known(d) = Known(c) \cup {op.p} /\ d.active = c.active
      /\ RecordOf(d, op.p) = r
      /\ \A q \in Known(c) \ {op.p} : RecordOf(d, q) = RecordOf(c, q)
  <2>1. d = ConfigAnd(op.p, r)
    BY DEF Changed
  <2> HIDE DEF d, r
  <2> QED
    BY <1>1, <2>1, ConfigAndIs DEF ConfigInv
<1> HIDE DEF d
<1>3. KeyIn(UsesStore, d, Forgotten, op.p)
      = IF op.clear THEN None ELSE IF op.key # None THEN op.key
        ELSE KeyIn(UsesStore, c, secrets, op.p)
  <2>1. CASE op.clear
    <3>1. r.key = None /\ ~r.ref
      BY <2>1, UpdatedIs
    <3> HIDE DEF r
    <3> QED
      BY <1>2, <2>1, <3>1 DEF KeyIn
  <2>2. CASE ~op.clear /\ op.key # None
    <3>1. r.key = op.key
      BY <2>2, UpdatedIs
    <3> HIDE DEF r
    <3> QED
      BY <1>2, <2>2, <3>1 DEF KeyIn
  <2>3. CASE ~op.clear /\ op.key = None
    <3>1. r.key = StoredOf(op.p).key
      BY <2>3, UpdatedIs
    <3>2. (r.ref => StoredOf(op.p).ref) /\ (StoredOf(op.p).ref => r.ref)
      BY <2>3, UpdatedIs
    <3>3. Forgotten = secrets
      BY <2>3 DEF Forgotten, Forgets
    <3> HIDE DEF r
    <3> QED
      BY <1>2, <2>3, <3>1, <3>2, <3>3, StoredMeaning DEF KeyIn
  <2> QED
    BY <2>1, <2>2, <2>3
<1>4. UrlIn(d, op.p) = IF op.url = "keep" THEN UrlIn(c, op.p) ELSE op.url
  <2>1. r.url = IF op.url = "keep" THEN StoredOf(op.p).url ELSE op.url
    BY UpdatedIs
  <2> HIDE DEF r
  <2> QED
    BY <1>2, <2>1, StoredMeaning DEF UrlIn
<1>5. \A p \in Providers \ {op.p} : /\ KeyIn(UsesStore, d, Forgotten, p) = KeyIn(UsesStore, c, secrets, p)
                                    /\ UrlIn(d, p) = UrlIn(c, p)
  <2> TAKE p \in Providers \ {op.p}
  <2>1. KeyIn(UsesStore, d, Forgotten, p) = KeyIn(UsesStore, d, secrets, p)
    BY OtherKeyForgotten
  <2> QED
    BY <1>2, <2>1 DEF KeyIn, UrlIn
<1> HIDE DEF c
<1>6. CASE \E p \in Providers : f = KeyField(p)
  <2>1. PICK p \in Providers : f = KeyField(p)
    BY <1>6
  <2>2. CASE p = op.p
    BY <1>3, <2>1, <2>2, Meanings, IntendedIs DEF c, d
  <2>3. CASE p # op.p
    <3>1. f # KeyField(op.p) /\ f # UrlField(op.p)
      BY <2>1, <2>3, FieldsDistinct
    <3>2. Meaning(UsesStore, d, Forgotten, f) = Meaning(UsesStore, c, secrets, f)
      BY <1>5, <2>1, <2>3, Meanings
    <3> QED
      BY <3>1, <3>2, IntendedIs DEF c, d
  <2> QED
    BY <2>2, <2>3
<1>7. CASE \E p \in Providers : f = UrlField(p)
  <2>1. PICK p \in Providers : f = UrlField(p)
    BY <1>7
  <2>2. CASE p = op.p
    BY <1>4, <2>1, <2>2, Meanings, IntendedIs DEF c, d
  <2>3. CASE p # op.p
    <3>1. f # KeyField(op.p) /\ f # UrlField(op.p)
      BY <2>1, <2>3, FieldsDistinct
    <3>2. Meaning(UsesStore, d, Forgotten, f) = Meaning(UsesStore, c, secrets, f)
      BY <1>5, <2>1, <2>3, Meanings
    <3> QED
      BY <3>1, <3>2, IntendedIs DEF c, d
  <2> QED
    BY <2>2, <2>3
<1>8. CASE f = ActiveField
  <2>1. f # KeyField(op.p) /\ f # UrlField(op.p)
    BY <1>8, FieldsDistinct
  <2>2. Meaning(UsesStore, d, Forgotten, f) = Meaning(UsesStore, c, secrets, f)
    BY <1>2, <1>8, Meanings
  <2> QED
    BY <2>1, <2>2, IntendedIs DEF c, d
<1> QED
  BY <1>6, <1>7, <1>8, FieldCases

LEMMA DeleteMeaning ==
    ASSUME ConfigInv, op.pc = "change", op.kind = "delete", NEW f \in Fields
    PROVE  Meaning(UsesStore, Changed, Forgotten, f)
           = Intended(op, f, Meaning(UsesStore, memory.config, secrets, f))
<1> DEFINE c == memory.config
           d == Changed
<1>1. /\ Known(d) = Known(c) \ {op.p}
      /\ d.active = IF c.active = op.p THEN None ELSE c.active
      /\ \A q \in Known(c) \ {op.p} : RecordOf(d, q) = RecordOf(c, q)
  <2>1. d = ConfigWithout(op.p)
    BY DEF Changed
  <2> HIDE DEF d
  <2> QED
    BY <2>1, ConfigWithoutIs DEF ConfigInv
<1> HIDE DEF d
<1>2. KeyIn(UsesStore, d, Forgotten, op.p) = None /\ UrlIn(d, op.p) = None
  BY <1>1 DEF KeyIn, UrlIn
<1>3. \A p \in Providers \ {op.p} : /\ KeyIn(UsesStore, d, Forgotten, p) = KeyIn(UsesStore, c, secrets, p)
                                    /\ UrlIn(d, p) = UrlIn(c, p)
  <2> TAKE p \in Providers \ {op.p}
  <2>1. KeyIn(UsesStore, d, Forgotten, p) = KeyIn(UsesStore, d, secrets, p)
    BY OtherKeyForgotten
  <2> QED
    BY <1>1, <2>1 DEF KeyIn, UrlIn
<1> HIDE DEF c
<1>4. ASSUME NEW p \in Providers, f = KeyField(p) \/ f = UrlField(p)
      PROVE  Meaning(UsesStore, d, Forgotten, f) = Intended(op, f, Meaning(UsesStore, c, secrets, f))
  <2>1. CASE p = op.p
    BY <1>2, <1>4, <2>1, Meanings, IntendedIs
  <2>2. CASE p # op.p
    <3>1. f \notin {KeyField(op.p), UrlField(op.p), ActiveField}
      BY <1>4, <2>2, FieldsDistinct
    <3>2. Meaning(UsesStore, d, Forgotten, f) = Meaning(UsesStore, c, secrets, f)
      BY <1>3, <1>4, <2>2, Meanings
    <3> QED
      BY <3>1, <3>2, IntendedIs
  <2> QED
    BY <2>1, <2>2
<1>5. CASE f = ActiveField
  <2>1. Meaning(UsesStore, d, Forgotten, f) = d.active /\ Meaning(UsesStore, c, secrets, f) = c.active
    BY <1>5, Meanings
  <2>2. Intended(op, f, c.active) = IF c.active = op.p THEN None ELSE c.active
    BY <1>5, IntendedIs
  <2> QED
    BY <1>1, <2>1, <2>2 DEF c, d
<1> QED
  BY <1>4, <1>5, FieldCases DEF c, d

LEMMA ActivateMeaning ==
    ASSUME ConfigInv, op.pc = "change", op.kind = "activate", NEW f \in Fields
    PROVE  Meaning(UsesStore, Changed, Forgotten, f)
           = Intended(op, f, Meaning(UsesStore, memory.config, secrets, f))
<1> DEFINE c == memory.config
           d == Changed
<1>1. /\ Known(d) = Known(c) /\ d.active = op.p
      /\ \A q \in Known(c) : RecordOf(d, q) = RecordOf(c, q)
  <2>1. d = [c EXCEPT !.active = op.p]
    BY DEF Changed
  <2>2. IsConfig(c)
    BY DEF ConfigInv
  <2> HIDE DEF d, c
  <2> QED
    BY <2>1, <2>2, ActivatedIs
<1>2. Forgotten = secrets
  BY DEF Forgotten, Forgets
<1> HIDE DEF d, c
<1>3. \A p \in Providers : /\ KeyIn(UsesStore, d, secrets, p) = KeyIn(UsesStore, c, secrets, p)
                           /\ UrlIn(d, p) = UrlIn(c, p)
  BY <1>1 DEF KeyIn, UrlIn
<1>4. ASSUME NEW p \in Providers, f = KeyField(p) \/ f = UrlField(p)
      PROVE  Meaning(UsesStore, d, Forgotten, f) = Intended(op, f, Meaning(UsesStore, c, secrets, f))
  <2>1. f # ActiveField
    BY <1>4, FieldsDistinct
  <2>2. Meaning(UsesStore, d, secrets, f) = Meaning(UsesStore, c, secrets, f)
    BY <1>3, <1>4, Meanings
  <2> QED
    BY <1>2, <2>1, <2>2, IntendedIs
<1>5. CASE f = ActiveField
  <2>1. Meaning(UsesStore, d, Forgotten, f) = d.active /\ Meaning(UsesStore, c, secrets, f) = c.active
    BY <1>5, Meanings
  <2>2. Intended(op, f, c.active) = op.p
    BY <1>5, IntendedIs
  <2> QED
    BY <1>1, <2>1, <2>2 DEF c, d
<1> QED
  BY <1>4, <1>5, FieldCases DEF c, d

LEMMA ChangedMeaning ==
    ASSUME ConfigInv, op.pc = "change", op.kind \in {"set", "delete", "activate"},
           op.kind = "set" => ~ClearWithKey(op), NEW f \in Fields
    PROVE  Meaning(UsesStore, Changed, Forgotten, f)
           = Intended(op, f, Meaning(UsesStore, memory.config, secrets, f))
  BY SetMeaning, DeleteMeaning, ActivateMeaning

LEMMA ValueMeaning ==
    ASSUME NEW c, NEW s, NEW f \in Fields
    PROVE  Value(c, s, f) = Meaning(UsesStore, c, s, f)
<1>1. \A p : KeyOf(c, s, p) = KeyIn(UsesStore, c, s, p) /\ UrlOf(c, p) = UrlIn(c, p)
  BY KeyMeaning DEF UrlOf, UrlIn, Known, RecordOf
<1> QED
  BY <1>1 DEF Value, Meaning

LEMMA ValueInit == Init => ValueInv
<1> SUFFICES ASSUME Init PROVE ValueInv
  OBVIOUS
<1>1. FileKnown
  <2>1. \A f \in Fields : possible[f] = {Value(Content, secrets, f)}
    BY DEF Init, Reloaded
  <2> QED
    BY <2>1, ValueMeaning DEF FileKnown
<1>2. op.pc = "idle" /\ ~memory.loaded
  BY DEF Init, Idle, Unloaded
<1> QED
  BY <1>1, <1>2
     DEF ValueInv, MemoryKnown, NextKnown, NextAsked, KeysStored, FileWritten, LateLoaded,
         Saving, Late

\* A step after which nothing is being saved.
LEMMA RestingValues ==
    ASSUME FileKnown', MemoryKnown', op'.pc \notin Late
    PROVE  ValueInv'
  BY DEF ValueInv, NextKnown, NextAsked, KeysStored, FileWritten, LateLoaded, Saving, Late

LEMMA SameStoreKnown ==
    ASSUME FileKnown, UNCHANGED <<backend, disk, secrets>>,
           \A f \in Fields : possible[f] \subseteq possible'[f]
    PROVE  FileKnown'
  BY StoreInUseSame, ContentSame DEF FileKnown

LEMMA SameMemoryKnown ==
    ASSUME MemoryKnown, UNCHANGED <<backend, memory, secrets>>,
           \A f \in Fields : possible[f] \subseteq possible'[f]
    PROVE  MemoryKnown'
  BY StoreInUseSame DEF MemoryKnown

\* Nothing changed but the request, and that is not being saved.
LEMMA QuietStep ==
    ASSUME ValueInv, UNCHANGED <<backend, store, possible>>, op'.pc \notin Late
    PROVE  ValueInv'
<1>1. \A f \in Fields : possible[f] \subseteq possible'[f]
  OBVIOUS
<1> QED
  BY <1>1, SameStoreKnown, SameMemoryKnown, RestingValues DEF ValueInv, store

LEMMA ReceivedValues == ASSUME ValueInv, Receive PROVE ValueInv'
<1>1. op'.pc \notin Late
  BY DEF Receive, Idle, Late
<1> QED
  BY <1>1, QuietStep DEF Receive

LEMMA CrashedValues == ASSUME ValueInv, Crash PROVE ValueInv'
<1>1. op'.pc \notin Late /\ MemoryKnown'
  BY DEF Crash, Idle, Late, MemoryKnown, Unloaded
<1>2. FileKnown'
  BY SameStoreKnown DEF Crash, ValueInv
<1> QED
  BY <1>1, <1>2, RestingValues

\* A configuration is read from the file as it is there.
LEMMA HydratedKnown ==
    ASSUME ConfigInv, FileKnown, NEW f \in Fields
    PROVE  Meaning(UsesStore, Hydrate(Content, secrets), secrets, f) \in possible[f]
<1>1. Same(UsesStore, Hydrate(Content, secrets), secrets, Content, secrets)
  BY ContentIsConfig, HydrateKeepsMeaning
<1>2. Meaning(UsesStore, Hydrate(Content, secrets), secrets, f) = Meaning(UsesStore, Content, secrets, f)
  BY <1>1, SameMeaning
<1> QED
  BY <1>2 DEF FileKnown

LEMMA LoadedValues ==
    ASSUME ValueInv, ConfigInv, ShapeInv, LoadConfig
    PROVE  ValueInv'
<1> DEFINE c == Hydrate(Content, secrets)
<1>1. UNCHANGED <<backend, disk, secrets, possible>>
  BY DEF LoadConfig
<1>2. FileKnown' /\ UsesStore' = UsesStore
  BY <1>1, SameStoreKnown, StoreInUseSame DEF ValueInv
<1>3. \A f \in Fields : Meaning(UsesStore, c, secrets, f) \in possible[f]
  BY HydratedKnown DEF ValueInv
<1> HIDE DEF c
<1>4. CASE memory.loaded /\ op' = [op EXCEPT !.pc = "change"] /\ memory' = memory
  <2>1. op'.pc = "change" /\ memory'.loaded
    BY <1>4 DEF ShapeInv
  <2>2. MemoryKnown'
    BY <1>1, <1>4, SameMemoryKnown DEF ValueInv
  <2> QED
    BY <1>2, <2>1, <2>2
       DEF ValueInv, NextKnown, NextAsked, KeysStored, FileWritten, LateLoaded, Saving, Late
<1>5. CASE op' = [op EXCEPT !.pc = "change"] /\ memory' = Cached(c)
  <2>1. op'.pc = "change" /\ memory'.loaded /\ memory'.config = c
    BY <1>5 DEF ShapeInv, Cached
  <2>2. MemoryKnown'
    BY <1>1, <1>2, <1>3, <2>1 DEF MemoryKnown
  <2> QED
    BY <1>2, <2>1, <2>2
       DEF ValueInv, NextKnown, NextAsked, KeysStored, FileWritten, LateLoaded, Saving, Late
<1>6. CASE BeginSave(c, TRUE) /\ memory' = Cached(c)
  <2>1. op'.pc = "serialize" /\ op'.next = c /\ op'.migrating
        /\ op'.todo = IF UsesStore THEN WithKey(c) ELSE {}
    BY <1>6 DEF ShapeInv, BeginSave
  <2>2. memory'.loaded /\ memory'.config = c
    BY <1>6 DEF Cached
  <2>3. MemoryKnown' /\ NextKnown'
    BY <1>1, <1>2, <1>3, <2>1, <2>2 DEF MemoryKnown, NextKnown
  <2> QED
    BY <1>2, <2>1, <2>2, <2>3
       DEF ValueInv, NextAsked, KeysStored, FileWritten, LateLoaded, Saving, Late
<1> QED
  BY <1>4, <1>5, <1>6 DEF LoadConfig, c

\* A failed request leaves what there was, but a key may be forgotten.
LEMMA FailedChangeValues ==
    ASSUME ValueInv, ConfigInv, op.pc = "change", UNCHANGED <<backend, disk>>, Widen(op),
           secrets' \in {secrets, Forgotten}
    PROVE  /\ FileKnown'
           /\ \A f \in Fields : /\ possible[f] \subseteq possible'[f]
                                /\ \A v \in possible[f] : Intended(op, f, v) \in possible'[f]
           /\ \A f \in Fields : Meaning(UsesStore, memory.config, secrets', f) \in possible'[f]
<1>1. \A f \in Fields : possible'[f] = possible[f] \cup {Intended(op, f, v) : v \in possible[f]}
  BY DEF Widen
<1>2. ASSUME NEW c, NEW f \in Fields, Meaning(UsesStore, c, secrets, f) \in possible[f]
      PROVE  Meaning(UsesStore, c, secrets', f) \in possible'[f]
  <2>1. CASE Meaning(UsesStore, c, secrets', f) = Meaning(UsesStore, c, secrets, f)
    BY <1>1, <1>2, <2>1
  <2>2. CASE Forgets /\ f = KeyField(op.p) /\ Meaning(UsesStore, c, secrets', f) = None
    BY <1>1, <1>2, <2>2, ForgettingIsIntended
  <2>3. secrets' = secrets \/ secrets' = Forgotten
    OBVIOUS
  <2> QED
    BY <2>1, <2>2, <2>3, ForgottenMeaning
<1>3. FileKnown'
  BY <1>2, StoreInUseSame, ContentSame DEF ValueInv, FileKnown
<1>4. memory.loaded
  BY DEF ValueInv, LateLoaded, Late
<1> QED
  BY <1>1, <1>2, <1>3, <1>4 DEF ValueInv, MemoryKnown

LEMMA ChangedValues ==
    ASSUME ValueInv, ConfigInv, ShapeInv, Change
    PROVE  ValueInv'
<1>1. /\ op.pc = "change" /\ op.kind \in {"set", "delete", "activate"}
      /\ op.kind = "set" => ~ClearWithKey(op)
      /\ BeginChange(Changed)
      /\ UNCHANGED <<backend, disk>>
  BY ChangeIs
<1>2. /\ op'.pc = "serialize" /\ op'.next = Changed /\ ~op'.migrating /\ op'.before = possible
      /\ op'.todo = IF UsesStore THEN WithKey(Changed) ELSE {}
      /\ op'.kind = op.kind /\ op'.p = op.p /\ op'.key = op.key /\ op'.clear = op.clear
      /\ op'.url = op.url
  BY <1>1 DEF BeginChange, ShapeInv
<1>3. secrets' = Forgotten /\ Widen(op)
  BY <1>1 DEF BeginChange
<1>4. /\ FileKnown'
      /\ \A f \in Fields : \A v \in possible[f] : Intended(op, f, v) \in possible'[f]
      /\ \A f \in Fields : Meaning(UsesStore, memory.config, secrets', f) \in possible'[f]
  BY <1>1, <1>3, FailedChangeValues
<1>5. memory.loaded /\ memory'.loaded /\ UsesStore' = UsesStore
  BY <1>1, ChangeIs, StoreInUseSame DEF ValueInv, LateLoaded, Late
<1>6. \A f \in Fields : Meaning(UsesStore, memory.config, secrets, f) \in possible[f]
  BY <1>5 DEF ValueInv, MemoryKnown
<1>7. \A f \in Fields :
         /\ Meaning(UsesStore, Changed, secrets', f)
            = Intended(op, f, Meaning(UsesStore, memory.config, secrets, f))
         /\ Meaning(UsesStore, Changed, secrets', f) \in possible'[f]
  BY <1>1, <1>3, <1>4, <1>6, ChangedMeaning
<1>8. MemoryKnown'
  <2>1. memory'.config = memory.config \/ memory'.config = Changed
    BY ChangeIs
  <2> QED
    BY <1>4, <1>5, <1>7, <2>1 DEF MemoryKnown
<1>9. NextKnown'
  BY <1>2, <1>5, <1>7 DEF NextKnown
<1>10. NextAsked'
  <2>1. ASSUME NEW f \in Fields
        PROVE  \E v \in op'.before[f] :
                  Meaning(UsesStore', op'.next, secrets', f) = Intended(op', f, v)
    <3> DEFINE v == Meaning(UsesStore, memory.config, secrets, f)
    <3>1. v \in op'.before[f]
      BY <1>2, <1>6
    <3>2. Intended(op', f, v) = Intended(op, f, v)
      BY <1>2, IntendedSame
    <3> QED
      BY <1>2, <1>5, <1>7, <3>1, <3>2
  <2> QED
    BY <2>1 DEF NextAsked
<1>11. KeysStored' /\ FileWritten' /\ LateLoaded'
  BY <1>2, <1>5 DEF KeysStored, FileWritten, LateLoaded
<1> QED
  BY <1>4, <1>8, <1>9, <1>10, <1>11 DEF ValueInv

LEMMA NotChangedValues ==
    ASSUME ValueInv, ConfigInv, LoadFails \/ ReadOnly \/ ChangeFails \/ RehydrateFails
    PROVE  ValueInv'
<1>1. op'.pc \notin Late
  BY AnswersIs DEF LoadFails, ReadOnly, ChangeFails, RehydrateFails, Late
<1>2. CASE UNCHANGED <<backend, store, possible>>
  BY <1>1, <1>2, QuietStep
<1>3. CASE ChangeFails /\ Widen(op)
  <2>1. op.pc = "change" /\ UNCHANGED <<backend, disk, memory>> /\ secrets' \in {secrets, Forgotten}
    BY <1>3 DEF ChangeFails, Changing
  <2>2. FileKnown' /\ \A f \in Fields : Meaning(UsesStore, memory.config, secrets', f) \in possible'[f]
    BY <1>3, <2>1, FailedChangeValues
  <2>3. MemoryKnown'
    BY <2>1, <2>2, StoreInUseSame DEF MemoryKnown
  <2> QED
    BY <1>1, <2>2, <2>3, RestingValues
<1> QED
  BY <1>2, <1>3 DEF LoadFails, ReadOnly, ChangeFails, RehydrateFails, Changing, SaveOnly, store

\* Storing a key of the configuration that is being saved.
LEMMA StoredValues ==
    ASSUME ValueInv, ConfigInv, op.pc = "serialize", NEW p \in op.todo,
           secrets' = [secrets EXCEPT ![p] = op.next.providers[p].key],
           UNCHANGED <<backend, disk, memory, possible>>
    PROVE  /\ FileKnown' /\ MemoryKnown'
           /\ \A f \in Fields : Meaning(UsesStore, op.next, secrets', f)
                                = Meaning(UsesStore, op.next, secrets, f)
<1> DEFINE k == RecordOf(op.next, p).key
<1>1. p \in Providers /\ p \in Known(op.next) /\ k # None
  BY DEF ConfigInv, WithKey, Known, RecordOf, IsConfig
<1>2. secrets' = [secrets EXCEPT ![p] = k]
  BY DEF RecordOf
<1> HIDE DEF k
<1>3. secrets = [q \in Providers |-> secrets[q]]
  BY DEF ConfigInv
<1>4. ASSUME NEW c, NEW f \in Fields
      PROVE  \/ Meaning(UsesStore, c, secrets', f) = Meaning(UsesStore, c, secrets, f)
             \/ f = KeyField(p) /\ Meaning(UsesStore, c, secrets', f) = k
  BY <1>1, <1>2, <1>3, StoreChangesOneField
<1>5. Meaning(UsesStore, op.next, secrets, KeyField(p)) = k
  <2>1. KeyIn(UsesStore, op.next, secrets, p) = k
    BY <1>1 DEF KeyIn, k
  <2> QED
    BY <2>1, Meanings
<1>6. KeyField(p) \in Fields
  BY <1>1 DEF Fields, KeyField
<1>7. k \in possible[KeyField(p)]
  BY <1>5, <1>6 DEF ValueInv, NextKnown, Saving
<1>8. FileKnown'
  BY <1>4, <1>7, StoreInUseSame, ContentSame DEF ValueInv, FileKnown
<1>9. MemoryKnown'
  BY <1>4, <1>7, StoreInUseSame DEF ValueInv, MemoryKnown
<1> QED
  BY <1>4, <1>5, <1>8, <1>9

LEMMA StoreSecretValues ==
    ASSUME ValueInv, ConfigInv, ShapeInv, StoreSecret
    PROVE  ValueInv'
<1>1. op.pc = "serialize" /\ UNCHANGED <<backend, disk, memory, possible>>
  BY DEF StoreSecret, SaveOnly
<1>2. PICK p \in op.todo : /\ secrets' = [secrets EXCEPT ![p] = op.next.providers[p].key]
                           /\ op' = [op EXCEPT !.todo = @ \ {p}]
  BY DEF StoreSecret
<1>3. /\ op'.pc = "serialize" /\ op'.next = op.next /\ op'.migrating = op.migrating
      /\ op'.before = op.before /\ op'.todo = op.todo \ {p}
      /\ op'.kind = op.kind /\ op'.p = op.p /\ op'.key = op.key /\ op'.clear = op.clear
      /\ op'.url = op.url
  BY <1>1, <1>2 DEF ShapeInv
<1>4. /\ FileKnown' /\ MemoryKnown'
      /\ \A f \in Fields : Meaning(UsesStore, op.next, secrets', f)
                           = Meaning(UsesStore, op.next, secrets, f)
  BY <1>1, <1>2, StoredValues
<1>5. UsesStore' = UsesStore
  BY <1>1, StoreInUseSame
<1>6. NextKnown'
  BY <1>1, <1>3, <1>4, <1>5 DEF ValueInv, NextKnown, Saving
<1>7. NextAsked'
  <2>1. \A f \in Fields : \A v : Intended(op', f, v) = Intended(op, f, v)
    BY <1>3, IntendedSame
  <2> QED
    BY <1>1, <1>3, <1>4, <1>5, <2>1 DEF ValueInv, NextAsked, Saving
<1>8. KeysStored'
  <2>1. UsesStore => \A q \in WithKey(op.next) \ op.todo : secrets[q] = RecordOf(op.next, q).key
    BY <1>1 DEF ValueInv, KeysStored, Saving
  <2>2. p \in Providers /\ WithKey(op.next) \subseteq Providers
    BY DEF ConfigInv, WithKey, IsConfig, Known
  <2>3. secrets'[p] = RecordOf(op.next, p).key
    BY <1>2, <2>2 DEF ConfigInv, RecordOf
  <2>4. \A q \in WithKey(op.next) \ {p} : secrets'[q] = secrets[q]
    BY <1>2, <2>2 DEF ConfigInv
  <2> QED
    BY <1>3, <1>5, <2>1, <2>3, <2>4 DEF KeysStored
<1>9. FileWritten' /\ LateLoaded'
  BY <1>1, <1>3 DEF FileWritten, LateLoaded, ValueInv, Late
<1> QED
  BY <1>4, <1>6, <1>7, <1>8, <1>9 DEF ValueInv

\* When every key is stored, the file that is written means what was to be saved.
LEMMA WrittenMeaning ==
    ASSUME ValueInv, ConfigInv, op.pc = "serialize", op.todo = {},
           UNCHANGED <<backend, secrets>>, disk' = Whole(Serialized(op.next))
    PROVE  \A f \in Fields : Meaning(UsesStore', Content', secrets', f)
                             = Meaning(UsesStore, op.next, secrets, f)
<1>1. Content' = Serialized(op.next) /\ UsesStore' = UsesStore
  BY StoreInUseSame DEF Content, Whole
<1>2. UsesStore => \A p \in WithKey(op.next) : secrets[p] = RecordOf(op.next, p).key
  BY DEF ValueInv, KeysStored, Saving
<1>3. Same(UsesStore, Serialized(op.next), secrets, op.next, secrets)
  BY <1>2, SerializedKeepsMeaning DEF ConfigInv
<1> QED
  BY <1>1, <1>3, SameMeaning

LEMMA WriteFileValues ==
    ASSUME ValueInv, ConfigInv, ShapeInv, WriteFile
    PROVE  ValueInv'
<1>1. /\ op.pc = "serialize" /\ op.todo = {} /\ UNCHANGED <<backend, secrets, memory, possible>>
      /\ disk' = Whole(Serialized(op.next)) /\ op' = [op EXCEPT !.pc = "rehydrate"]
  BY DEF WriteFile, SaveOnly
<1>2. /\ op'.pc = "rehydrate" /\ op'.next = op.next /\ op'.migrating = op.migrating
      /\ op'.before = op.before /\ op'.todo = op.todo
      /\ op'.kind = op.kind /\ op'.p = op.p /\ op'.key = op.key /\ op'.clear = op.clear
      /\ op'.url = op.url
  BY <1>1 DEF ShapeInv
<1>3. UsesStore' = UsesStore
  BY <1>1, StoreInUseSame
<1>4. \A f \in Fields : Meaning(UsesStore', Content', secrets', f)
                        = Meaning(UsesStore, op.next, secrets, f)
  BY <1>1, WrittenMeaning
<1>5. \A f \in Fields : Meaning(UsesStore, op.next, secrets, f) \in possible[f]
  BY <1>1 DEF ValueInv, NextKnown, Saving
<1>6. FileKnown' /\ FileWritten'
  BY <1>1, <1>2, <1>3, <1>4, <1>5 DEF FileKnown, FileWritten
<1>7. MemoryKnown'
  BY <1>1, SameMemoryKnown DEF ValueInv
<1>8. NextKnown'
  BY <1>1, <1>2, <1>3, <1>5 DEF NextKnown
<1>9. NextAsked'
  <2>1. \A f \in Fields : \A v : Intended(op', f, v) = Intended(op, f, v)
    BY <1>2, IntendedSame
  <2> QED
    BY <1>1, <1>2, <1>3, <2>1 DEF ValueInv, NextAsked, Saving
<1>10. KeysStored' /\ LateLoaded'
  BY <1>1, <1>2, <1>3 DEF ValueInv, KeysStored, LateLoaded, Saving, Late
<1> QED
  BY <1>6, <1>7, <1>8, <1>9, <1>10 DEF ValueInv

LEMMA SaveFailsValues ==
    ASSUME ValueInv, ConfigInv, StoreFails \/ WriteFails
    PROVE  ValueInv'
<1>1. op'.pc \notin Late /\ op.pc = "serialize" /\ UNCHANGED <<backend, memory, possible>>
  BY AnswersIs DEF StoreFails, WriteFails, Late, SaveOnly
<1>2. CASE UNCHANGED <<disk, secrets>>
  BY <1>1, <1>2, QuietStep DEF store
<1>3. CASE UNCHANGED disk /\ \E p \in op.todo : secrets' = [secrets EXCEPT ![p] = op.next.providers[p].key]
  BY <1>1, <1>3, StoredValues, RestingValues
<1>4. CASE UNCHANGED secrets /\ op.todo = {} /\ disk' = Whole(Serialized(op.next))
  <2>1. FileKnown'
    <3>1. \A f \in Fields : Meaning(UsesStore, op.next, secrets, f) \in possible[f]
      BY <1>1 DEF ValueInv, NextKnown, Saving
    <3> QED
      BY <1>1, <1>4, <3>1, WrittenMeaning DEF FileKnown
  <2>2. MemoryKnown'
    BY <1>1, <1>4, SameMemoryKnown DEF ValueInv
  <2> QED
    BY <1>1, <2>1, <2>2, RestingValues
<1> QED
  BY <1>2, <1>3, <1>4 DEF StoreFails, WriteFails

LEMMA RehydratedValues ==
    ASSUME ValueInv, ConfigInv, ShapeInv, Rehydrate
    PROVE  ValueInv'
<1>1. /\ op.pc = "rehydrate" /\ UNCHANGED <<backend, disk, secrets>>
      /\ memory' = Cached(Hydrate(Serialized(op.next), secrets))
  BY DEF Rehydrate
<1>2. memory'.loaded /\ memory'.config = Hydrate(Serialized(op.next), secrets)
  BY <1>1 DEF Cached
<1>3. UsesStore' = UsesStore /\ Content' = Content
  BY <1>1, StoreInUseSame, ContentSame
<1>4. \A f \in Fields : Meaning(UsesStore, memory'.config, secrets, f)
                        = Meaning(UsesStore, op.next, secrets, f)
  <2> DEFINE s == Serialized(op.next)
  <2>1. UsesStore => \A p \in WithKey(op.next) : secrets[p] = RecordOf(op.next, p).key
    BY <1>1 DEF ValueInv, KeysStored, FileWritten, Saving
  <2>2. Same(UsesStore, s, secrets, op.next, secrets) /\ IsConfig(s)
    BY <2>1, SerializedKeepsMeaning, SerializedIs DEF ConfigInv
  <2>3. Same(UsesStore, Hydrate(s, secrets), secrets, s, secrets)
    BY <2>2, HydrateKeepsMeaning
  <2> QED
    BY <1>2, <2>2, <2>3, SameMeaning
<1>5. \A f \in Fields : Meaning(UsesStore, Content, secrets, f)
                        = Meaning(UsesStore, op.next, secrets, f)
  BY <1>1 DEF ValueInv, FileWritten
<1>6. CASE op' = [op EXCEPT !.pc = "change"] /\ UNCHANGED possible
  <2>1. op'.pc = "change"
    BY <1>6 DEF ShapeInv
  <2>2. \A f \in Fields : Meaning(UsesStore, op.next, secrets, f) \in possible[f]
    BY <1>1 DEF ValueInv, NextKnown, Saving
  <2>3. FileKnown' /\ MemoryKnown'
    BY <1>1, <1>3, <1>4, <1>5, <1>6, <2>2 DEF FileKnown, MemoryKnown
  <2> QED
    BY <1>2, <2>1, <2>3
       DEF ValueInv, NextKnown, NextAsked, KeysStored, FileWritten, LateLoaded, Saving, Late
<1>7. CASE ~op.migrating /\ Acknowledge
  <2>1. op'.pc \notin Late
    BY <1>7, AnswersIs DEF Acknowledge, Late
  <2>2. ASSUME NEW f \in Fields
        PROVE  Meaning(UsesStore, op.next, secrets, f) \in possible'[f]
    <3>1. PICK v \in op.before[f] :
             Meaning(UsesStore, op.next, secrets, f) = Intended(op, f, v)
      BY <1>1, <1>7 DEF ValueInv, NextAsked, Saving
    <3>2. possible'[f] = {Intended(op, f, w) : w \in op.before[f]}
      BY <1>7 DEF Acknowledge
    <3> QED
      BY <3>1, <3>2
  <2>3. FileKnown' /\ MemoryKnown'
    BY <1>1, <1>3, <1>4, <1>5, <2>2 DEF FileKnown, MemoryKnown
  <2> QED
    BY <2>1, <2>3, RestingValues
<1> QED
  BY <1>6, <1>7 DEF Rehydrate

LEMMA ValueNext ==
    ASSUME ValueInv, ConfigInv, ShapeInv, [Next]_vars
    PROVE  ValueInv'
<1>1. CASE UNCHANGED vars
  <2>1. UsesStore' = UsesStore /\ Content' = Content
    BY <1>1, StoreInUseSame, ContentSame DEF vars, store
  <2>2. UNCHANGED <<secrets, memory, op, possible>>
    BY <1>1 DEF vars, store
  <2> QED
    BY <2>1, <2>2
       DEF ValueInv, FileKnown, MemoryKnown, NextKnown, NextAsked, KeysStored, FileWritten,
           LateLoaded, Saving, Late
<1>2. CASE Next
  BY <1>2, ReceivedValues, CrashedValues, LoadedValues, ChangedValues, NotChangedValues,
     StoreSecretValues, WriteFileValues, SaveFailsValues, RehydratedValues
     DEF Next, Step, Change
<1> QED
  BY <1>1, <1>2

LEMMA AlwaysKnown == BridgeSpec => [](ConfigInv /\ KeysInv /\ ValueInv)
<1>1. BridgeInit => ConfigInv /\ KeysInv /\ ValueInv
  <2>1. Init => op.pc = "idle" /\ op.answer = "none"
    BY DEF Init, Idle
  <2>2. Init => KeysInv
    BY <2>1 DEF KeysInv
  <2> QED
    BY <2>2, ConfigInit, ValueInit, BridgeSteps
<1>2. /\ AclInv /\ ShapeInv /\ ConfigInv /\ KeysInv /\ ValueInv
      /\ [BridgeNext]_BridgeVars
      => ConfigInv' /\ KeysInv' /\ ValueInv'
  BY ConfigNext, KeysNext, ValueNext, BridgeSteps
<1> QED
  BY <1>1, <1>2, AlwaysSafe, PTL DEF BridgeSpec

-----------------------------------------------------------------------------

\* Whatever fails or crashes while a key, an endpoint or the selection is changed, a
\* restart finds what was acknowledged last, or the old or the new value of a request that
\* failed (config.ts:458-490, 828-904).
THEOREM NothingIsForgotten == BridgeSpec => []NothingForgotten
<1>1. ValueInv => NothingForgotten
  BY ValueMeaning DEF ValueInv, FileKnown, NothingForgotten, Reloaded
<1> QED
  BY <1>1, AlwaysKnown, PTL

\* A request is never answered from a value that was replaced (config.ts:854-904).
THEOREM MemoryIsAlwaysCurrent == BridgeSpec => []MemoryIsCurrent
<1>1. ValueInv => MemoryIsCurrent
  BY ValueMeaning DEF ValueInv, MemoryKnown, MemoryIsCurrent
<1> QED
  BY <1>1, AlwaysKnown, PTL

\* Once a change is acknowledged, the file holds no key if there is a secret store, whoever
\* put one there (config.ts:828-894).
THEOREM KeysAlwaysLeaveFile == BridgeSpec => []KeysLeaveFile
<1>1. KeysInv => KeysLeaveFile
  BY DEF KeysInv, KeysLeaveFile
<1> QED
  BY <1>1, AlwaysKnown, PTL
=============================================================================
