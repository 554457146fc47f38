----------------------------- MODULE RecordOrder -----------------------------
(* The order in which webgpu_introspect writes the _fields_ of the records:  *)
(* a depth-first walk over by-value dependencies that appends a record when  *)
(* all it embeds has been appended.  emit_python and emit_tree each run it.  *)
(* The recursion of the lambda `visit` is the explicit stack `path`.         *)
EXTENDS Naturals, Sequences

VARIABLES
  deps,     \* deps[i]: the records that record i embeds by value
  mark,     \* 0 unseen, 1 in progress, 2 done
  path,     \* the calls of visit that have not returned: record, next dependency
  order,    \* the records whose visit has returned
  scan      \* the next root of the loop over all records

orderVars == <<deps, mark, path, order, scan>>

Indices == DOMAIN deps
Frame(i) == [record |-> i, next |-> 1]
Top == path[Len(path)]

\* std::vector<int> mark(n, 0), an empty order, the loop at its first record.
StartOrder ==
  /\ mark' = [i \in DOMAIN deps' |-> 0]
  /\ path' = << >>
  /\ order' = << >>
  /\ scan' = 1

\* The loop over all records calls visit(scan): a marked record returns at once.
VisitRoot ==
  /\ path = << >>
  /\ scan <= Len(deps)
  /\ scan' = scan + 1
  /\ IF mark[scan] # 0
     THEN UNCHANGED <<mark, path>>
     ELSE /\ mark' = [mark EXCEPT ![scan] = 1]
          /\ path' = <<Frame(scan)>>
  /\ UNCHANGED <<deps, order>>

\* visit calls itself on the next dependency, which returns at once when it is
\* done or, in a cycle, in progress.
VisitDependency ==
  /\ path # << >>
  /\ Top.next <= Len(deps[Top.record])
  /\ LET d == deps[Top.record][Top.next]
         moved == [path EXCEPT ![Len(path)].next = @ + 1]
     IN IF mark[d] # 0
        THEN path' = moved /\ UNCHANGED mark
        ELSE /\ mark' = [mark EXCEPT ![d] = 1]
             /\ path' = Append(moved, Frame(d))
  /\ UNCHANGED <<deps, order, scan>>

\* Mutant of Leave: the last dependency is not waited for.
LeaveEarly ==
  /\ path # << >>
  /\ Top.next >= Len(deps[Top.record])
  /\ mark' = [mark EXCEPT ![Top.record] = 2]
  /\ order' = Append(order, Top.record)
  /\ path' = SubSeq(path, 1, Len(path) - 1)
  /\ UNCHANGED <<deps, scan>>

\* visit has been through the dependencies: the record is appended.
Leave ==
  /\ path # << >>
  /\ Top.next > Len(deps[Top.record])
  /\ mark' = [mark EXCEPT ![Top.record] = 2]
  /\ order' = Append(order, Top.record)
  /\ path' = SubSeq(path, 1, Len(path) - 1)
  /\ UNCHANGED <<deps, scan>>

Ordered == path = << >> /\ scan > Len(deps)

\* "C structs can't truly cycle by-value": there is a rank that embedding lowers.
Lowers(rank) == \A i \in Indices : \A k \in DOMAIN deps[i] : rank[deps[i][k]] < rank[i]
Acyclic == \E rank \in [Indices -> Nat] : Lowers(rank)

OrderInit ==
  /\ deps \in Seq(Seq(Nat))
  /\ \A i \in Indices : deps[i] \in Seq(Indices)
  /\ Acyclic
  /\ mark = [i \in Indices |-> 0]
  /\ path = << >>
  /\ order = << >>
  /\ scan = 1

OrderStep == VisitRoot \/ VisitDependency \/ Leave

OrderSpec == OrderInit /\ [][OrderStep]_orderVars
-----------------------------------------------------------------------------
OrderTypeOK ==
  /\ mark \in [Indices -> 0..2]
  /\ path \in Seq([record : Indices, next : Nat \ {0}])
  /\ order \in Seq(Indices)
  /\ scan \in 1..Len(deps) + 1

(* A record is appended once, and after everything it embeds: what ctypes    *)
(* needs, which finalises a class the moment another embeds it.              *)
DependenciesFirst ==
  /\ \A p, q \in DOMAIN order : order[p] = order[q] => p = q
  /\ \A p \in DOMAIN order : \A k \in DOMAIN deps[order[p]] :
        \E q \in DOMAIN order : q < p /\ order[q] = deps[order[p]][k]

(* When the walk ends no record has been left out.                           *)
NoRecordMissing == Ordered => \A i \in Indices : \E p \in DOMAIN order : order[p] = i

(* Every record is ordered once, after all that it embeds by value.          *)
OrderSound == DependenciesFirst /\ NoRecordMissing
=============================================================================
