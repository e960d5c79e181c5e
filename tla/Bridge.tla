------------------------------- MODULE Bridge -------------------------------
(***************************************************************************)
(* The bridge server without its agent sessions: the configuration of the  *)
(* providers and the catalog of models.  They share no state, so a         *)
(* behaviour follows one of them, and TLC adds their states instead of     *)
(* multiplying them.                                                       *)
(***************************************************************************)
EXTENDS BridgeConfig

CONSTANT MaxVersion  \* versions of the catalog (a bound)

ASSUME VersionAssumption == MaxVersion \in Nat \ {0}

VARIABLES part, upstream, cached, file, entries, index, fetching, newest, unsaved

Catalog == INSTANCE ModelCatalog

catalogVars == <<upstream, cached, file, entries, index, fetching, newest, unsaved>>
BridgeVars == <<part, vars, catalogVars>>

BridgeInit ==
    /\ part \in {"configuration", "catalog"}
    /\ Init
    /\ Catalog!Init

BridgeNext ==
    \/ part = "configuration" /\ Next /\ UNCHANGED <<part, catalogVars>>
    \/ part = "catalog" /\ Catalog!Next /\ UNCHANGED <<part, vars>>

BridgeSpec == BridgeInit /\ [][BridgeNext]_BridgeVars

----------------------------------------------------------------------------
(* Properties *)

\* See ModelCatalog (catalog.ts:75-84, 128-136).
ListedIsNewest == Catalog!ListedIsNewest
=============================================================================
