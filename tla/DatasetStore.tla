---------------------------- MODULE DatasetStore ----------------------------
(***************************************************************************)
(* What the data pipeline promises to its readers: a snapshot appears      *)
(* whole or not at all, never changes and keeps its identity for itself;   *)
(* derived bars appear only for a published snapshot; the one catalog file *)
(* always serves a dataset that has both.  Module DataPipeline implements  *)
(* it by several processes that share a file system.                       *)
(***************************************************************************)
EXTENDS Integers

CONSTANT Unserved    \* what the catalog serves before it is built

VARIABLES
    published,    \* the snapshots under data/lake/canonical, by content
    derived,      \* the identities that have derived artifacts
    served        \* the identity the catalog's views are bound to

storeVars == <<published, derived, served>>

IdsOf(snapshots) == {s.id : s \in snapshots}

StoreInit ==
    /\ published = {}
    /\ derived = {}
    /\ served = Unserved

\* One rename makes a snapshot visible under an identity nobody has used.
Publish ==
    /\ \E s \in published' : /\ s.id \notin IdsOf(published)
                             /\ published' = published \cup {s}
    /\ UNCHANGED <<derived, served>>

\* One rename makes the derived artifacts of a snapshot visible.
Derive ==
    /\ \E id \in IdsOf(published) : /\ id \notin derived
                                    /\ derived' = derived \cup {id}
    /\ UNCHANGED <<published, served>>

\* One replace binds the catalog to a dataset.
Serve ==
    /\ served' \in derived
    /\ UNCHANGED <<published, derived>>

StoreNext == Publish \/ Derive \/ Serve

StoreSpec == StoreInit /\ [][StoreNext]_storeVars

----------------------------------------------------------------------------

\* Two published snapshots never share an identity: what a dataset id stands
\* for is fixed when it is first published.
IdentityIsUnique == \A s, t \in published : s.id = t.id => s = t

\* What the catalog serves is published and has its derived artifacts.
ServedIsBacked ==
    /\ derived \subseteq IdsOf(published)
    /\ served # Unserved => served \in derived

=============================================================================
