---------------------------- MODULE BridgeConfig ----------------------------
(***************************************************************************)
(* The provider configuration of the bridge (config.ts) behind its         *)
(* handlers (server.ts, registry.ts): a JSON file with one record for each *)
(* provider and the active selection, API keys in the file or in a secret  *)
(* store (Keychain, DPAPI) with a reference left in the file, and a copy   *)
(* of it all in memory, from which every request is answered.              *)
(*                                                                         *)
(* Requests that change something come one after the other: the settings   *)
(* page locks its buttons until it has an answer.  Between any two awaits  *)
(* of one, the disk, the secret store or the process may fail.             *)
(*                                                                         *)
(* Of the providers two differ: one with an endpoint of its own and the    *)
(* custom one, whose endpoint is stored.  Default models are left out:     *)
(* they are stored the way endpoints are.                                  *)
(***************************************************************************)
EXTENDS Naturals, FiniteSets

CONSTANTS
    Keys,          \* API keys a person enters
    Urls,          \* endpoints for the custom provider
    None,          \* no key, no endpoint, no provider
    MaxRequests,   \* bound on requests that change something
    MaxFaults,     \* bound on failures of the disk and the secret store
    MaxRestarts    \* bound on crashes of the bridge

ASSUME ConstantsAssumption ==
    /\ None \notin Keys \cup Urls
    /\ {MaxRequests, MaxFaults, MaxRestarts} \subseteq Nat

VARIABLES
    backend,    \* where keys are kept: "file", "keychain" or "dpapi"
    acl,        \* of the parents and of the directory of the configuration
    verified,   \* this process has checked them
    disk,       \* the file: "absent", "torn" or "whole", and what it holds
    secrets,    \* the secret store
    memory,     \* the cached configuration, once it is loaded
    op,         \* the request under way
    count,      \* requests, faults and restarts so far
    found,      \* history: acl as it was at first
    touched,    \* history: the file or the store was written
    possible    \* history: for each field the values it may rightly have

store == <<disk, secrets, memory>>
vars == <<backend, acl, verified, store, op, count, found, touched, possible>>

Providers == {"builtin", "custom"}
NewRecord == [key |-> None, ref |-> FALSE, url |-> None]
EmptyConfig == [providers |-> [p \in {} |-> NewRecord], active |-> None]

----------------------------------------------------------------------------
(* The access rules of the configuration directory, on Windows *)

Rule(sid, rights, inheritOnly) ==
    [sid |-> sid, rights |-> rights, inheritOnly |-> inheritOnly, inherited |-> FALSE]
FullControl == {"read", "write"}
Inherited(rules) == {[rule EXCEPT !.inherited = TRUE] : rule \in rules}
PrivateRules == {Rule(sid, FullControl, FALSE) : sid \in {"current", "system", "administrators"}}
Acl(owner, protected, rules) == [owner |-> owner, protected |-> protected, rules |-> rules]

TestPrivilegedSid(sid, allowCreatorOwner) ==
    \/ sid \in {"current", "system", "administrators", "installer"}
    \/ allowCreatorOwner /\ sid = "creator"

TestNoUnprivilegedWrite(a, allowCreatorOwner, ignoreInheritOnly) ==
    \A rule \in a.rules :
        \/ ignoreInheritOnly /\ rule.inheritOnly
        \/ TestPrivilegedSid(rule.sid, allowCreatorOwner)
        \/ "write" \notin rule.rights

TestRepairablePrivateAcl(a) ==
    a.owner = "current" /\ TestNoUnprivilegedWrite(a, FALSE, FALSE)

TestPrivateAcl(a) ==
    /\ a.owner = "current" /\ a.protected
    /\ TestNoUnprivilegedWrite(a, FALSE, FALSE)
    /\ \A rule \in a.rules : ~rule.inherited
    /\ \E rule \in a.rules : rule.sid = "current" /\ FullControl \subseteq rule.rights

TestParentAcl(a) ==
    TestPrivilegedSid(a.owner, FALSE) /\ TestNoUnprivilegedWrite(a, TRUE, TRUE)

\* Invoke-AclTarget for the directory: a private one, or one made so.
RepairAcl(a) == IF TestPrivateAcl(a) THEN a ELSE Acl("current", TRUE, PrivateRules)
\* Mutant: whatever the rules were, the directory is repaired.
AclAdopted(a) == a.owner = "current"

AclAccepted(a) == TestPrivateAcl(a) \/ TestRepairablePrivateAcl(a)

ParentAcls ==
    {Acl("system", FALSE, {Rule("current", FullControl, FALSE), Rule("creator", FullControl, TRUE)}),
     Acl("system", FALSE, {Rule("other", FullControl, FALSE)})}
DirectoryAcls ==
    {Acl("current", TRUE, PrivateRules),
     Acl("current", FALSE, Inherited({Rule("current", FullControl, FALSE), Rule("other", {"read"}, FALSE)})),
     Acl("current", FALSE, Inherited({Rule("current", FullControl, FALSE), Rule("other", FullControl, TRUE)})),
     Acl("other", TRUE, PrivateRules)}

\* ensureDir and assertWindowsAclBatch: once checked, a process does not check again.
DirectoryAccepted ==
    \/ backend # "dpapi" \/ verified
    \/ TestParentAcl(acl.parent) /\ AclAccepted(acl.own)

EnsureDir ==
    /\ DirectoryAccepted
    /\ verified' = TRUE
    /\ acl' = IF backend # "dpapi" \/ verified THEN acl ELSE [acl EXCEPT !.own = RepairAcl(@)]

----------------------------------------------------------------------------
(* What is stored and what it means *)

UsesStore == backend # "file"

\* The key a configuration gives a provider, with what the secret store holds.
KeyOf(config, known, p) ==
    IF p \notin DOMAIN config.providers THEN None
    ELSE LET r == config.providers[p] IN
         IF r.key # None THEN r.key ELSE IF r.ref /\ UsesStore THEN known[p] ELSE None

UrlOf(config, p) == IF p \in DOMAIN config.providers THEN config.providers[p].url ELSE None

\* hydrateSecrets: keys that are only referenced are read from the store.
Hydrate(config, known) ==
    [config EXCEPT !.providers =
        [p \in DOMAIN @ |-> [@[p] EXCEPT !.key = KeyOf(config, known, p)]]]

\* Mutant: only a new key is taken out of the record.
ForFileNewOnly(r) ==
    IF UsesStore /\ ~r.ref THEN [r EXCEPT !.key = None, !.ref = r.key # None] ELSE r

\* serializeForStorage, what is left of a record for the file; its key was stored before.
ForFile(r) ==
    IF UsesStore THEN [r EXCEPT !.key = None, !.ref = r.ref \/ r.key # None]
    ELSE [r EXCEPT !.ref = FALSE]

Serialized(config) ==
    [config EXCEPT !.providers = [p \in DOMAIN @ |-> ForFile(@[p])]]

WithKey(config) == {p \in DOMAIN config.providers : config.providers[p].key # None}

\* load: what the file says; one that does not parse counts as empty.
Content == IF disk.state = "whole" THEN disk.config ELSE EmptyConfig

Whole(config) == [state |-> "whole", config |-> config]
Cached(config) == [loaded |-> TRUE, config |-> config]
Unloaded == [loaded |-> FALSE, config |-> EmptyConfig]

\* A plaintext key without a reference is moved to the store by load itself.
NeedsMigration(config) ==
    UsesStore /\ \E p \in WithKey(config) : ~config.providers[p].ref

----------------------------------------------------------------------------
(* Fields, and what a request is to do to them (for the properties) *)

Fields == {<<"key", p>> : p \in Providers} \cup {<<"url", p>> : p \in Providers} \cup {<<"active">>}

Value(config, known, f) ==
    CASE f[1] = "key" -> KeyOf(config, known, f[2])
      [] f[1] = "url" -> UrlOf(config, f[2])
      [] f[1] = "active" -> config.active

Reloaded(f) == Value(Content, secrets, f)

Intended(r, f, v) ==
    CASE r.kind = "set" /\ f = <<"key", r.p>> -> IF r.clear THEN None ELSE IF r.key # None THEN r.key ELSE v
      [] r.kind = "set" /\ f = <<"url", r.p>> -> IF r.url = "keep" THEN v ELSE r.url
      [] r.kind = "delete" /\ f \in {<<"key", r.p>>, <<"url", r.p>>} -> None
      [] r.kind = "delete" /\ f = <<"active">> -> IF v = r.p THEN None ELSE v
      [] r.kind = "activate" /\ f = <<"active">> -> r.p
      [] OTHER -> v

Widen(r) == possible' = [f \in Fields |-> possible[f] \cup {Intended(r, f, v) : v \in possible[f]}]

----------------------------------------------------------------------------
(* Requests *)

Idle == [kind |-> "none", p |-> None, key |-> None, clear |-> FALSE, url |-> "keep",
         pc |-> "idle", next |-> EmptyConfig, todo |-> {}, migrating |-> FALSE,
         before |-> [f \in Fields |-> {}], answer |-> "none"]

Requests ==
    [kind : {"set"}, p : Providers, key : Keys \cup {None}, clear : BOOLEAN,
     url : Urls \cup {None, "keep"}]
    \cup [kind : {"delete"}, p : Providers, key : {None}, clear : {FALSE}, url : {"keep"}]
    \cup [kind : {"activate"}, p : Providers \cup {None}, key : {None}, clear : {FALSE}, url : {"keep"}]
    \cup [kind : {"read"}, p : {None}, key : {None}, clear : {FALSE}, url : {"keep"}]

\* A built-in provider has the endpoint of the registry and no other.
CustomUrlNotAllowed(r) == r.kind = "set" /\ r.p = "builtin" /\ r.url \in Urls
\* setProvider: both at once is an error.
ClearWithKey(r) == r.kind = "set" /\ r.clear /\ r.key # None

Unspent(what, max) == count[what] < max /\ count' = [count EXCEPT ![what] = @ + 1]
Fault == Unspent("faults", MaxFaults)
Answers(word) == op' = [Idle EXCEPT !.kind = op.kind, !.answer = word]

\* What dispatch and the handlers ask of a request before they look at the configuration.
Demands(r) ==
    {"loopback host", "own origin", "token", "route"}
    \cup (IF r.kind = "delete" THEN {} ELSE {"known provider"})
    \cup (IF r.kind \in {"set", "activate"} THEN {"JSON body"} ELSE {})

\* A request that lacks one of them is refused; the others reach the configuration.
Receive ==
    /\ op.pc = "idle" /\ Unspent("requests", MaxRequests)
    /\ \E r \in Requests : \E lacks \in {{}} \cup {{demand} : demand \in Demands(r)} :
         IF lacks # {} \/ CustomUrlNotAllowed(r)
         THEN op' = [Idle EXCEPT !.kind = r.kind, !.answer = "refused"]
         ELSE op' = [Idle EXCEPT !.kind = r.kind, !.p = r.p, !.key = r.key, !.clear = r.clear,
                                 !.url = IF r.p = "builtin" THEN "keep" ELSE r.url,
                                 !.pc = "load"]
    /\ UNCHANGED <<backend, acl, verified, store, found, touched, possible>>

BeginSave(config, migrating) ==
    op' = [op EXCEPT !.pc = "serialize", !.next = config, !.migrating = migrating,
                     !.todo = IF UsesStore THEN WithKey(config) ELSE {}]

\* load: the memory, or the file with the keys it refers to.
LoadConfig ==
    /\ op.pc = "load"
    /\ \/ /\ memory.loaded
          /\ op' = [op EXCEPT !.pc = "change"]
          /\ UNCHANGED <<acl, verified, memory>>
       \/ /\ ~memory.loaded /\ EnsureDir
          /\ LET config == Hydrate(Content, secrets) IN
             /\ memory' = Cached(config)
             /\ IF NeedsMigration(config) THEN BeginSave(config, TRUE)
                ELSE op' = [op EXCEPT !.pc = "change"]
    /\ UNCHANGED <<backend, disk, secrets, count, found, touched, possible>>

\* The directory is refused, a file operation fails, or the store has no answer in time.
LoadFails ==
    /\ op.pc = "load" /\ ~memory.loaded
    /\ (~DirectoryAccepted /\ UNCHANGED count) \/ Fault
    /\ Answers("error")
    /\ UNCHANGED <<backend, acl, verified, store, found, touched, possible>>

\* getProvider, once the configuration is loaded.
StoredOf(p) ==
    IF p \in DOMAIN memory.config.providers THEN memory.config.providers[p] ELSE NewRecord

\* The record setProvider makes of the one it found.
Updated(r) ==
    [key |-> IF op.clear THEN None ELSE IF op.key # None THEN op.key ELSE r.key,
     ref |-> r.ref /\ ~op.clear,
     url |-> IF op.url = "keep" THEN r.url ELSE op.url]

ConfigAnd(p, r) ==
    [memory.config EXCEPT !.providers = [q \in DOMAIN @ \cup {p} |-> IF q = p THEN r ELSE @[q]]]

ConfigWithout(p) ==
    LET config == memory.config IN
    [providers |-> [q \in DOMAIN config.providers \ {p} |-> config.providers[q]],
     active |-> IF config.active = p THEN None ELSE config.active]

Changing ==
    /\ op.pc = "change"
    /\ UNCHANGED <<backend, acl, verified, disk, found>>

\* A key that is cleared or deleted leaves the store before the file is written.
Forgets == op.kind = "delete" \/ (op.kind = "set" /\ op.clear /\ op.key = None)
Forgotten == IF Forgets /\ UsesStore THEN [secrets EXCEPT ![op.p] = None] ELSE secrets

BeginChange(config) ==
    /\ op' = [op EXCEPT !.pc = "serialize", !.next = config, !.migrating = FALSE,
                        !.before = possible, !.todo = IF UsesStore THEN WithKey(config) ELSE {}]
    /\ secrets' = Forgotten
    /\ touched' = TRUE
    /\ Widen(op)
    /\ UNCHANGED count

\* setProvider works on a copy of the cached configuration.
SetProvider ==
    /\ Changing /\ op.kind = "set" /\ ~ClearWithKey(op)
    /\ BeginChange(ConfigAnd(op.p, Updated(StoredOf(op.p))))
    /\ UNCHANGED memory

\* deleteProvider and setActive change the cached configuration in place.
DeleteProvider ==
    /\ Changing /\ op.kind = "delete"
    /\ BeginChange(ConfigWithout(op.p))
    /\ memory' = Cached(ConfigWithout(op.p))

SetActive ==
    /\ Changing /\ op.kind = "activate"
    /\ BeginChange([memory.config EXCEPT !.active = op.p])
    /\ memory' = [memory EXCEPT !.config.active = op.p]

\* listProviders, getActive and every reader: nothing to change.
ReadOnly ==
    /\ Changing /\ op.kind = "read"
    /\ Answers("ok")
    /\ UNCHANGED <<memory, secrets, count, touched, possible>>

\* An error before anything is changed; a store that fails may have done its part.
ChangeFails ==
    /\ Changing
    /\ \/ /\ op.kind = "set" /\ ClearWithKey(op)
          /\ UNCHANGED <<count, secrets, possible>>
       \/ /\ Forgets /\ UsesStore /\ Fault
          /\ secrets' \in {secrets, Forgotten}
          /\ Widen(op)
    /\ Answers("error")
    /\ UNCHANGED <<memory, touched>>

----------------------------------------------------------------------------
(* save: the keys to the store, the file, the memory *)

SaveOnly == UNCHANGED <<backend, acl, verified, found, possible>>

\* store.set for one provider; Keychain and DPAPI read the key back to be sure.
StoreSecret ==
    /\ op.pc = "serialize"
    /\ \E p \in op.todo :
         /\ secrets' = [secrets EXCEPT ![p] = op.next.providers[p].key]
         /\ op' = [op EXCEPT !.todo = @ \ {p}]
    /\ touched' = TRUE
    /\ SaveOnly /\ UNCHANGED <<disk, memory, count>>

StoreFails ==
    /\ op.pc = "serialize" /\ Fault
    /\ \E p \in op.todo : secrets' \in {secrets, [secrets EXCEPT ![p] = op.next.providers[p].key]}
    /\ Answers("error")
    /\ touched' = TRUE
    /\ SaveOnly /\ UNCHANGED <<disk, memory>>

\* atomicWritePrivate: a temporary file, renamed when it is whole and private.
WriteFile ==
    /\ op.pc = "serialize" /\ op.todo = {}
    /\ disk' = Whole(Serialized(op.next))
    /\ op' = [op EXCEPT !.pc = "rehydrate"]
    /\ touched' = TRUE
    /\ SaveOnly /\ UNCHANGED <<secrets, memory, count>>

\* Mutant: the file is written in place, and a failure leaves a part of it.
WriteFailsInPlace ==
    /\ op.pc = "serialize" /\ op.todo = {} /\ Fault
    /\ disk' = [state |-> "torn", config |-> EmptyConfig]
    /\ Answers("error")
    /\ touched' = TRUE
    /\ SaveOnly /\ UNCHANGED <<secrets, memory>>

\* It fails before the rename, or after it.
WriteFails ==
    /\ op.pc = "serialize" /\ op.todo = {} /\ Fault
    /\ disk' \in {disk, Whole(Serialized(op.next))}
    /\ Answers("error")
    /\ touched' = TRUE
    /\ SaveOnly /\ UNCHANGED <<secrets, memory>>

Acknowledge ==
    /\ Answers("ok")
    /\ possible' = [f \in Fields |-> {Intended(op, f, v) : v \in op.before[f]}]

\* Mutant: the cache is not renewed.
RehydrateLater ==
    /\ op.pc = "rehydrate"
    /\ IF op.migrating THEN op' = [op EXCEPT !.pc = "change"] /\ UNCHANGED possible
       ELSE Acknowledge
    /\ UNCHANGED <<backend, acl, verified, store, count, found, touched>>

\* The end of save: the cache is what was stored.  A migration goes on with its request.
Rehydrate ==
    /\ op.pc = "rehydrate"
    /\ memory' = Cached(Hydrate(Serialized(op.next), secrets))
    /\ IF op.migrating THEN op' = [op EXCEPT !.pc = "change"] /\ UNCHANGED possible
       ELSE Acknowledge
    /\ UNCHANGED <<backend, acl, verified, disk, secrets, count, found, touched>>

RehydrateFails ==
    /\ op.pc = "rehydrate" /\ UsesStore /\ Fault
    /\ Answers("error")
    /\ SaveOnly /\ UNCHANGED <<store, touched>>

\* The process ends at any point; a new one starts with an empty memory.
Crash ==
    /\ Unspent("restarts", MaxRestarts)
    /\ memory' = Unloaded /\ verified' = FALSE /\ op' = Idle
    /\ UNCHANGED <<backend, acl, disk, secrets, found, touched, possible>>

----------------------------------------------------------------------------
(* registry.ts and testProvider: what a request to a provider is made of *)

\* resolveForGeneration: key and endpoint, or a refusal.
Resolve(p, r) ==
    [ok |-> r.key # None /\ (p = "custom" => r.url # None),
     key |-> r.key, url |-> IF p = "custom" THEN r.url ELSE None]

\* Mutant: the stored key is good enough for any endpoint.
TestTargetAny(p, key, url) ==
    LET stored == StoredOf(p) IN
    Resolve(p, [key |-> IF key # None THEN key ELSE stored.key,
                url |-> IF url # None THEN url ELSE stored.url])

\* testProvider: a new custom endpoint is tried with a key of its own only.
TestTarget(p, key, url) ==
    LET stored == StoredOf(p) IN
    IF \/ p = "builtin" /\ url # None
       \/ p = "custom" /\ url # None /\ url # stored.url /\ key = None
    THEN Resolve(p, NewRecord)
    ELSE Resolve(p, [key |-> IF key # None THEN key ELSE stored.key,
                     url |-> IF url # None THEN url ELSE stored.url])

----------------------------------------------------------------------------
Legacy(p) == [EmptyConfig EXCEPT !.providers =
                [q \in {p} |-> [key |-> CHOOSE k \in Keys : TRUE, ref |-> FALSE,
                                url |-> IF p = "custom" THEN CHOOSE u \in Urls : TRUE ELSE None]]]

\* Nothing yet, or a file with a plaintext key from before the secret store.
Init ==
    /\ backend \in {"file", "keychain", "dpapi"}
    /\ acl \in IF backend = "dpapi" THEN [parent : ParentAcls, own : DirectoryAcls]
               ELSE {[parent |-> Acl("system", FALSE, {}), own |-> Acl("current", TRUE, PrivateRules)]}
    /\ found = acl
    /\ verified = FALSE /\ touched = FALSE
    /\ disk \in {[state |-> "absent", config |-> EmptyConfig]} \cup {Whole(Legacy(p)) : p \in Providers}
    /\ secrets = [p \in Providers |-> None]
    /\ memory = Unloaded
    /\ op = Idle
    /\ count = [requests |-> 0, faults |-> 0, restarts |-> 0]
    /\ possible = [f \in Fields |-> {Reloaded(f)}]

Step ==
    \/ LoadConfig \/ LoadFails
    \/ SetProvider \/ DeleteProvider \/ SetActive \/ ReadOnly \/ ChangeFails
    \/ StoreSecret \/ StoreFails \/ WriteFile \/ WriteFails \/ Rehydrate \/ RehydrateFails

Next == Receive \/ Step \/ Crash

Spec == Init /\ [][Next]_vars

----------------------------------------------------------------------------
(* Properties *)

\* What a restart would find is what was asked for: after an acknowledged request its
\* result, after a failed one the old or the new value, and for all else what it was,
\* whatever failed or crashed on the way (config.ts:458-490, 828-904).
NothingForgotten ==
    op.pc = "idle" => \A f \in Fields : Reloaded(f) \in possible[f]

\* Requests are answered from current values: a key or an endpoint in memory is one that
\* was acknowledged last, or asked for since (config.ts:854-904).
MemoryIsCurrent ==
    memory.loaded => \A f \in Fields : Value(memory.config, secrets, f) \in possible[f]

\* With a secret store, a change that was acknowledged leaves no key in the file, those
\* of older versions included (config.ts:828-894).
KeysLeaveFile ==
    UsesStore /\ op.answer = "ok" /\ op.kind # "read"
    => WithKey(Content) = {}

\* Nothing is written below a directory that another identity could write to, even if it
\* was made private in the meantime (config.ts:87-89, 130-133, 395-430).
NothingAdopted ==
    touched /\ backend = "dpapi" =>
        /\ TestParentAcl(found.parent)
        /\ TestNoUnprivilegedWrite(found.own, FALSE, FALSE)
        /\ TestPrivateAcl(acl.own)

\* A test of a connection sends the stored key to the stored endpoint only
\* (server.ts:434-450).
StoredKeyStaysHome ==
    memory.loaded =>
        \A p \in Providers, url \in Urls \cup {None} :
            LET target == TestTarget(p, None, url) IN
            target.ok => target = Resolve(p, StoredOf(p))
=============================================================================
