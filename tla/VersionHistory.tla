---------------------------- MODULE VersionHistory ----------------------------
(***************************************************************************)
(* What the version store of a brain promises (brain_versions.py): a list  *)
(* of versions that only grows at its end, and whose entries, the last one *)
(* excepted, may become tombstones.  Every step is atomic; VersionStore    *)
(* shows how the files implement it over failures and crashes.             *)
(***************************************************************************)
EXTENDS Naturals

CONSTANT Ids        \* version ids, positive numbers in the order they are given out

VARIABLES
    versions,   \* the versions listed: id and the version it follows
    dropped     \* the tombstones: id and the version it followed

vars == <<versions, dropped>>

\* prev is 0 for the first version.
Entry == [id : Ids, prev : Ids \cup {0}]

IdsOf(entries) == {e.id : e \in entries}

\* The last version of a list.
IsLast(e, entries) == e \in entries /\ \A o \in entries : o.id <= e.id

Init == versions = {} /\ dropped = {}

\* A new version follows the last one of the list.
Append ==
    \E e \in Entry :
        /\ \A o \in versions \cup dropped : o.id < e.id
        /\ IF versions = {} THEN e.prev = 0
           ELSE \E last \in versions : IsLast(last, versions) /\ e.prev = last.id
        /\ versions' = versions \cup {e}
        /\ UNCHANGED dropped

Drop ==
    \E e \in versions :
        /\ ~IsLast(e, versions)
        /\ versions' = versions \ {e}
        /\ dropped' = dropped \cup {e}

Spec == Init /\ [][Append \/ Drop]_vars

\* The lineage never closes over a dropped version (brain_versions.py:447): the
\* version an entry follows is listed, or has its tombstone.
LineageIsComplete ==
    \A e \in versions \cup dropped :
        e.prev # 0 => e.prev \in IdsOf(versions) \cup IdsOf(dropped)

\* A version is listed or a tombstone, never both.
ListedOrDropped == IdsOf(versions) \cap IdsOf(dropped) = {}
================================================================================
