-------------------------- MODULE RelationshipStore --------------------------
(***************************************************************************)
(* What RelationshipStore promises its callers, whatever structure keeps   *)
(* the relationships: a collection to which one relationship is added at a *)
(* time, duplicates allowed, from which one that matches is taken, and     *)
(* which is asked for all relationships a file has a part in.  Each        *)
(* relationship held carries a tag that tells it from its duplicates.      *)
(***************************************************************************)
EXTENDS Integers, FiniteSets

CONSTANTS
  File,         \* file paths the store accepts
  Malformed,    \* paths it rejects: empty, with control characters, with ..
  Kind,         \* relationship types
  NoKind,       \* the empty relationship type
  Line,         \* line numbers, zero or negative ones included
  Detail,       \* the fields no operation compares (symbols, target line)
  Tag           \* tells duplicates apart

VARIABLES
  held,         \* the relationships held, each with its tag
  reply         \* the last call and what it returned, or that it raised

storeVars == <<held, reply>>

Relationship == [src : File \cup Malformed, tgt : File \cup Malformed,
                 kind : Kind \cup {NoKind}, line : Line, detail : Detail]

Valid(r) == r.src \in File /\ r.tgt \in File /\ r.line > 0 /\ r.kind # NoKind

\* the four fields remove_relationship compares
Matches(r, q) ==
  r.src = q.src /\ r.tgt = q.tgt /\ r.kind = q.kind /\ r.line = q.line

Involves(r, f) == f \in {r.src, r.tgt}

\* a call: the method and its argument
Reply(call, S) == [to |-> call, kind |-> "done", rels |-> S]
Done(call)     == Reply(call, {})
Raised(call)   == [to |-> call, kind |-> "ValueError", rels |-> {}]

Init == held = {} /\ reply = Done(<<"init">>)

\* add_relationship and remove_relationship validate before they touch anything
Reject(method, r) ==
  /\ method \in {"add", "remove"} /\ ~Valid(r)
  /\ reply' = Raised(<<method, r>>)
  /\ UNCHANGED held

Add(r) ==
  /\ Valid(r)
  /\ \E t \in Tag \ {e[1] : e \in held} : held' = held \cup {<<t, r>>}
  /\ reply' = Done(<<"add", r>>)

\* one relationship that matches goes, or nothing happens if none does
Remove(q) ==
  /\ Valid(q)
  /\ \/ \E e \in held : Matches(e[2], q) /\ held' = held \ {e}
     \/ (\A e \in held : ~Matches(e[2], q)) /\ UNCHANGED held
  /\ reply' = Done(<<"remove", q>>)

Get(f) ==
  /\ reply' = Reply(<<"get", f>>, {e \in held : Involves(e[2], f)})
  /\ UNCHANGED held

GetAll == reply' = Reply(<<"all">>, held) /\ UNCHANGED held

Clear == held' = {} /\ reply' = Done(<<"clear">>)

Next ==
  \/ \E r \in Relationship : (\E m \in {"add", "remove"} : Reject(m, r)) \/ Add(r) \/ Remove(r)
  \/ \E f \in File \cup Malformed : Get(f)
  \/ GetAll \/ Clear

Spec == Init /\ [][Next]_storeVars
=============================================================================
