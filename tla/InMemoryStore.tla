---------------------------- MODULE InMemoryStore ----------------------------
(***************************************************************************)
(* Class InMemoryStore: the relationships in a list in which a removal     *)
(* leaves a gap, and for each file the indices of the relationships it has *)
(* a part in.  An index is never reused before clear(), so a list of       *)
(* indices stays valid across removals, and every one that leaves the list *)
(* must leave the lists of both its files.                                 *)
(***************************************************************************)
EXTENDS Integers, Sequences, FiniteSets

CONSTANTS
  File, Malformed, Kind, NoKind, Line, Detail,    \* as in RelationshipStore
  None,         \* what a removal leaves in the list
  MaxAdds,      \* bound on the length of the list, gaps included
  Listed        \* how many files most_connected_files names (10 in the code)

ASSUME PathAssumption == File \cap Malformed = {}
ASSUME KindAssumption == NoKind \notin Kind
ASSUME LineAssumption == Line \subseteq Int
ASSUME BoundAssumption == MaxAdds \in Nat /\ Listed \in Nat

VARIABLES
  relationships,    \* _relationships: relationships and gaps
  by_file,          \* _by_file: file -> the indices of its relationships
  reply             \* the last call and what it returned, or that it raised

vars == <<relationships, by_file, reply>>

Live == {i \in DOMAIN relationships : relationships[i] # None}

\* held is the list without its gaps, the index the tag
Store == INSTANCE RelationshipStore
           WITH held <- {<<i, relationships[i]>> : i \in Live},
                Tag <- 1 .. MaxAdds

ASSUME GapAssumption == None \notin Store!Relationship

Init ==
  /\ relationships = <<>>
  /\ by_file = [f \in {} |-> <<>>]
  /\ reply = Store!Done(<<"init">>)

\* dict.get(f, []) of the index
Indices(index, f) == IF f \in DOMAIN index THEN index[f] ELSE <<>>

\* the index with the list of f replaced
Put(index, f, s) == [k \in DOMAIN index \cup {f} |-> IF k = f THEN s ELSE index[k]]

AppendIndex(index, f, i) == Put(index, f, Append(Indices(index, f), i))

\* _by_file after a relationship is appended; one of a file to itself is noted once
IndexedTwice(index, r, i) == AppendIndex(AppendIndex(index, r.src, i), r.tgt, i)
Indexed(index, r, i) ==
  LET source == AppendIndex(index, r.src, i)
  IN IF r.src = r.tgt THEN source ELSE AppendIndex(source, r.tgt, i)

\* add_relationship and remove_relationship validate before they touch anything
Reject(method, r) ==
  /\ method \in {"add", "remove"} /\ ~Store!Valid(r)
  /\ reply' = Store!Raised(<<method, r>>)
  /\ UNCHANGED <<relationships, by_file>>

Add(r) ==
  /\ Store!Valid(r)
  /\ Len(relationships) < MaxAdds
  /\ relationships' = Append(relationships, r)
  /\ by_file' = Indexed(by_file, r, Len(relationships) + 1)
  /\ reply' = Store!Done(<<"add", r>>)

\* list.remove: the list without the first occurrence of i
Position(s, i) == CHOOSE p \in DOMAIN s : s[p] = i /\ \A q \in 1 .. p - 1 : s[q] # i
Without(s, i) ==
  IF \E p \in DOMAIN s : s[p] = i
  THEN LET first == Position(s, i)
       IN [k \in 1 .. Len(s) - 1 |-> IF k < first THEN s[k] ELSE s[k + 1]]
  ELSE s

\* _remove_from_index: an emptied list goes with its key
KeepsEmptyLists(index, f, i) ==
  IF f \in DOMAIN index THEN Put(index, f, Without(index[f], i)) ELSE index
RemoveFromIndex(index, f, i) ==
  IF f \notin DOMAIN index THEN index
  ELSE LET rest == Without(index[f], i)
       IN IF rest = <<>>
          THEN [k \in DOMAIN index \ {f} |-> index[k]]
          ELSE Put(index, f, rest)

Unindexed(index, r, i) ==
  LET source == RemoveFromIndex(index, r.src, i)
  IN IF r.src = r.tgt THEN source ELSE RemoveFromIndex(source, r.tgt, i)

\* the first relationship that matches makes room for a gap
MatchingSource(q) ==
  {i \in Live : relationships[i].src = q.src /\ relationships[i].kind = q.kind}
Matching(q) == {i \in Live : Store!Matches(relationships[i], q)}

Remove(q) ==
  /\ Store!Valid(q)
  /\ \/ \E i \in Matching(q) :
          /\ \A j \in Matching(q) : i <= j
          /\ relationships' = [relationships EXCEPT ![i] = None]
          /\ by_file' = Unindexed(by_file, q, i)
     \/ Matching(q) = {} /\ UNCHANGED <<relationships, by_file>>
  /\ reply' = Store!Done(<<"remove", q>>)

\* the relationships a list of indices leads to, gaps skipped
Found(indices) ==
  {<<indices[p], relationships[indices[p]]>> : p \in {p \in DOMAIN indices : indices[p] \in Live}}

Get(f) ==
  /\ reply' = Store!Reply(<<"get", f>>, Found(Indices(by_file, f)))
  /\ UNCHANGED <<relationships, by_file>>

GetAll ==
  /\ reply' = Store!Reply(<<"all">>, {<<i, relationships[i]>> : i \in Live})
  /\ UNCHANGED <<relationships, by_file>>

Clear ==
  /\ relationships' = <<>>
  /\ by_file' = [f \in {} |-> <<>>]
  /\ reply' = Store!Done(<<"clear">>)

Next ==
  \/ \E r \in Store!Relationship : (\E m \in {"add", "remove"} : Reject(m, r)) \/ Add(r) \/ Remove(r)
  \/ \E f \in File \cup Malformed : Get(f)
  \/ GetAll \/ Clear

Spec == Init /\ [][Next]_vars

-----------------------------------------------------------------------------
(***************************************************************************)
(* export_graph: what is counted from the index and what from the list.    *)
(***************************************************************************)
DependencyCounts(f) == Cardinality({i \in Live : relationships[i].tgt = f})

\* the targets by falling count, the first seen first among equals, cut at Listed
Before(f, g) ==
  LET firstSeen(x) == CHOOSE i \in Live : /\ relationships[i].tgt = x
                                          /\ \A j \in Live : relationships[j].tgt = x => i <= j
  IN \/ DependencyCounts(f) > DependencyCounts(g)
     \/ DependencyCounts(f) = DependencyCounts(g) /\ firstSeen(f) < firstSeen(g)
MostConnected ==
  LET targets == {relationships[i].tgt : i \in Live}
  IN {f \in targets : Cardinality({g \in targets : Before(g, f)}) < Listed}

ExportGraph ==
  [total_files |-> Cardinality(DOMAIN by_file),
   total_relationships |-> Cardinality(Live),
   relationship_count |-> [f \in DOMAIN by_file |-> Len(by_file[f])],
   most_connected |-> MostConnected]

-----------------------------------------------------------------------------
Ascending(s) == \A p, q \in DOMAIN s : p < q => s[p] < s[q]

\* the list holds relationships and gaps, every index list indices of it
TypeOK ==
  /\ relationships \in Seq(Store!Relationship \cup {None})
  /\ DOMAIN by_file \subseteq File
  /\ \A f \in DOMAIN by_file : by_file[f] \in Seq(1 .. Len(relationships))

(***************************************************************************)
(* After any calls, the index of a file lists, once each and in the order  *)
(* they were added, exactly the relationships left that the file has a     *)
(* part in, and a file without any has no key: get_relationships misses    *)
(* nothing, returns nothing twice and never meets a gap.                   *)
(***************************************************************************)
Listing(f) == {Indices(by_file, f)[p] : p \in DOMAIN Indices(by_file, f)}

IndexExact ==
  /\ \A f \in File : Listing(f) = {i \in Live : Store!Involves(relationships[i], f)}
  /\ \A f \in DOMAIN by_file : Ascending(by_file[f]) /\ by_file[f] # <<>>

(***************************************************************************)
(* The two halves of an export agree although total_files and the counts   *)
(* per file come from the index and the rest from the list: every file of  *)
(* a relationship is counted, and the counts per file add up to the ends   *)
(* of the relationships, those of a file to itself counted once.           *)
(***************************************************************************)
ExportAgrees ==
  LET involved == UNION {{relationships[i].src, relationships[i].tgt} : i \in Live}
  IN /\ ExportGraph.total_files = Cardinality(involved)
     /\ \A f \in involved :
          ExportGraph.relationship_count[f] =
            Cardinality({i \in Live : relationships[i].src = f}) + DependencyCounts(f)
              - Cardinality({i \in Live : relationships[i].src = f /\ relationships[i].tgt = f})
     /\ ExportGraph.most_connected \subseteq involved
     /\ \A f \in ExportGraph.most_connected, g \in involved \ ExportGraph.most_connected :
          DependencyCounts(f) >= DependencyCounts(g)

\* What a caller is told of a file or of the whole store is what the list holds.
StoreAgrees == IndexExact /\ ExportAgrees

(***************************************************************************)
(* InMemoryStore does what RelationshipStore promises, gaps and indices    *)
(* unseen: the same relationships held, the same replies.                  *)
(***************************************************************************)
ImplementsStore == Store!Spec
=============================================================================
