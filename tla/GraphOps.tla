------------------------------ MODULE GraphOps ------------------------------
(***************************************************************************)
(* The operations of class RelationshipGraph (src/src/xfile_context/       *)
(* models.py) as operators on a graph value, so that the state machines    *)
(* which own a graph (RelationshipGraph, StalenessResolver, GraphUpdater)  *)
(* share one translation of it.                                            *)
(*                                                                         *)
(* A graph is a record with the four attributes of the class.  Python      *)
(* dictionaries are functions over the keys present, since several methods *)
(* behave differently on a missing key and on a key with an empty set:     *)
(*   relationships   a bag (relationship -> number of copies in the list;  *)
(*                   the order of the list is read by no method)           *)
(*   dependencies    file -> files it depends on                           *)
(*   dependents      file -> files that depend on it                       *)
(*   file_metadata   file -> metadata record                               *)
(***************************************************************************)
EXTENDS Naturals, FiniteSets, Functions

CONSTANTS
  File,     \* analyzed files: the source of a relationship
  Marker,   \* <stdlib:os>, <third-party:x>, <unresolved:y>: targets only
  Site,     \* a relationship_type together with a line_number
  Detail,   \* a target_symbol together with a target_line
  Status    \* what metadata says of a file: analyzed, unparseable, deleted

Target == File \cup Marker
Rel    == [src : File, tgt : Target, site : Site, detail : Detail]
Meta   == [status : Status, pending : BOOLEAN]

(***************************************************************************)
(* Python dictionaries: d = {}, d[k] = v, d.get(k, set()), and the keys    *)
(* kept when the others are deleted.                                       *)
(***************************************************************************)
EmptyDict     == [k \in {} |-> {}]
Put(d, k, v)  == [x \in DOMAIN d \cup {k} |-> IF x = k THEN v ELSE d[x]]
GetSet(d, k)  == IF k \in DOMAIN d THEN d[k] ELSE {}
Keep(d, keys) == Restrict(d, DOMAIN d \cap keys)
Del(d, k)     == Restrict(d, DOMAIN d \ {k})

\* for s in d.values(): s.discard(x)
DiscardFromAll(d, x) == [k \in DOMAIN d |-> d[k] \ {x}]

EmptyGraph ==
  [relationships |-> EmptyDict, dependencies |-> EmptyDict,
   dependents |-> EmptyDict, file_metadata |-> EmptyDict]

Copies(g, r) == IF r \in DOMAIN g.relationships THEN g.relationships[r] ELSE 0

-----------------------------------------------------------------------------
(***************************************************************************)
(* Mutators.                                                               *)
(***************************************************************************)
AddRelationship(g, r) ==
  [relationships |-> Put(g.relationships, r, Copies(g, r) + 1),
   dependencies  |-> Put(g.dependencies, r.src, GetSet(g.dependencies, r.src) \cup {r.tgt}),
   dependents    |-> Put(g.dependents, r.tgt, GetSet(g.dependents, r.tgt) \cup {r.src}),
   file_metadata |-> g.file_metadata]

ForgetsDependents(g, bag) ==
  [relationships |-> [r \in DOMAIN g.relationships \cup DOMAIN bag |->
                        Copies(g, r) + (IF r \in DOMAIN bag THEN bag[r] ELSE 0)],
   dependencies  |-> [f \in DOMAIN g.dependencies \cup {r.src : r \in DOMAIN bag} |->
                        GetSet(g.dependencies, f)
                        \cup {r.tgt : r \in {q \in DOMAIN bag : q.src = f}}],
   dependents    |-> g.dependents,
   file_metadata |-> g.file_metadata]

(***************************************************************************)
(* for rel in relationships: add_relationship(rel).  The bag grows by the  *)
(* bag added, each index by the ends of its relationships.                 *)
(***************************************************************************)
AddAll(g, bag) ==
  LET rs == DOMAIN bag
      Copied(r) == Copies(g, r) + (IF r \in rs THEN bag[r] ELSE 0)
  IN [relationships |-> [r \in DOMAIN g.relationships \cup rs |-> Copied(r)],
      dependencies  |-> [f \in DOMAIN g.dependencies \cup {r.src : r \in rs} |->
                           GetSet(g.dependencies, f) \cup {r.tgt : r \in {q \in rs : q.src = f}}],
      dependents    |-> [f \in DOMAIN g.dependents \cup {r.tgt : r \in rs} |->
                           GetSet(g.dependents, f) \cup {r.src : r \in {q \in rs : q.tgt = f}}],
      file_metadata |-> g.file_metadata]

KeepsMetadata(g, f) ==
  [relationships |-> Keep(g.relationships,
                          {r \in DOMAIN g.relationships : r.src # f /\ r.tgt # f}),
   dependencies  |-> DiscardFromAll(Del(g.dependencies, f), f),
   dependents    |-> DiscardFromAll(Del(g.dependents, f), f),
   file_metadata |-> g.file_metadata]

RemoveRelationshipsForFile(g, f) ==
  [relationships |-> Keep(g.relationships,
                          {r \in DOMAIN g.relationships : r.src # f /\ r.tgt # f}),
   dependencies  |-> DiscardFromAll(Del(g.dependencies, f), f),
   dependents    |-> DiscardFromAll(Del(g.dependents, f), f),
   file_metadata |-> Del(g.file_metadata, f)]

\* store_pending_relationships, and the value remove_outgoing_relationships returns
Outgoing(g, f) == Keep(g.relationships, {r \in DOMAIN g.relationships : r.src = f})

LeavesReverseIndex(g, f) ==
  [relationships |-> Keep(g.relationships, {r \in DOMAIN g.relationships : r.src # f}),
   dependencies  |-> Del(g.dependencies, f),
   dependents    |-> g.dependents,
   file_metadata |-> g.file_metadata]

(***************************************************************************)
(* The reverse index is repaired from the targets the forward index names, *)
(* not from the relationships removed.                                     *)
(***************************************************************************)
RemoveOutgoingRelationships(g, f) ==
  [relationships |-> Keep(g.relationships, {r \in DOMAIN g.relationships : r.src # f}),
   dependencies  |-> Del(g.dependencies, f),
   dependents    |-> [t \in DOMAIN g.dependents |->
                        IF t \in GetSet(g.dependencies, f) THEN g.dependents[t] \ {f}
                        ELSE g.dependents[t]],
   file_metadata |-> g.file_metadata]

SetFileMetadata(g, f, m) ==
  [g EXCEPT !.file_metadata = Put(g.file_metadata, f, m)]

MarksUnknownFiles(g, f, flag) ==
  [g EXCEPT !.file_metadata =
     Put(g.file_metadata, f, IF f \in DOMAIN g.file_metadata
                               THEN [g.file_metadata[f] EXCEPT !.pending = flag]
                               ELSE [pending |-> flag])]

\* mark_file_pending_relationships and clear_pending_relationships: nothing without metadata
SetPending(g, f, flag) ==
  IF f \in DOMAIN g.file_metadata
    THEN [g EXCEPT !.file_metadata = Put(g.file_metadata, f,
                                         [g.file_metadata[f] EXCEPT !.pending = flag])]
    ELSE g

-----------------------------------------------------------------------------
(***************************************************************************)
(* Queries.                                                                *)
(***************************************************************************)
DependenciesOf(g, f) == {r \in DOMAIN g.relationships : r.src = f}
DependentsOf(g, f)   == {r \in DOMAIN g.relationships : r.tgt = f}

FilesWithPending(g) == {f \in DOMAIN g.file_metadata : g.file_metadata[f].pending}

OneLayer(index, f) == GetSet(index, f) \ {f}

(***************************************************************************)
(* get_transitive_dependencies: the breadth-first traversal of an index,   *)
(* one layer at a time, without the file it starts from.                   *)
(***************************************************************************)
TransitiveDependencies(index, f) ==
  LET next(seen) == seen \cup UNION {GetSet(index, x) : x \in seen}
      size == Cardinality(UNION {index[k] : k \in DOMAIN index})
      visited[n \in Nat] == IF n = 0 THEN {f} ELSE next(visited[n - 1])
  IN visited[size] \ {f}

(***************************************************************************)
(* What validate_graph reports as a duplicate: a second relationship of    *)
(* the same type and line between two files, whatever symbol it names.     *)
(***************************************************************************)
DuplicateErrors(g) ==
  {r \in DOMAIN g.relationships :
     \/ g.relationships[r] > 1
     \/ \E q \in DOMAIN g.relationships \ {r} :
          q.src = r.src /\ q.tgt = r.tgt /\ q.site = r.site}

-----------------------------------------------------------------------------
(***************************************************************************)
(* What every owner of a graph relies on: the shape of its attributes, and *)
(* that the two indices hold exactly the ends of the relationships.        *)
(***************************************************************************)
IsDict(d, keys, values) ==
  /\ DOMAIN d \subseteq keys
  /\ d = [k \in DOMAIN d |-> d[k]]
  /\ \A k \in DOMAIN d : d[k] \in values

GraphType(g) ==
  /\ g = [relationships |-> g.relationships, dependencies |-> g.dependencies,
          dependents |-> g.dependents, file_metadata |-> g.file_metadata]
  /\ IsDict(g.relationships, Rel, Nat \ {0})
  /\ IsDict(g.dependencies, File, SUBSET Target)
  /\ IsDict(g.dependents, Target, SUBSET File)
  /\ IsDict(g.file_metadata, File, Meta)

Linked(g, f, t) == \E r \in DOMAIN g.relationships : r.src = f /\ r.tgt = t

ForwardIndexExact(g) ==
  \A f \in File, t \in Target : t \in GetSet(g.dependencies, f) <=> Linked(g, f, t)
ReverseIndexExact(g) ==
  \A f \in File, t \in Target : f \in GetSet(g.dependents, t) <=> Linked(g, f, t)

Mirror(g) == ForwardIndexExact(g) /\ ReverseIndexExact(g)
=============================================================================
