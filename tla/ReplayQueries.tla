---------------------------- MODULE ReplayQueries ----------------------------
(***************************************************************************)
(* The queries of src/src/replay.rs, as functions of a list of records and *)
(* a list of scopes.  The lists may be any the caller has: a loaded run,   *)
(* whose identifiers are unique and whose parents exist, or the metadata   *)
(* and records of a file as they stand in it, where identifiers repeat and *)
(* parents are unknown or form cycles.  Both are taken from the loader's   *)
(* input here.  A list entry is named by its position, so that two entries *)
(* with one identifier stay apart.                                         *)
(***************************************************************************)
EXTENDS Replay, SequencesExt

IdsOf(list) == {list[i].id : i \in 1..Len(list)}

(* The first entry with each identifier.                                    *)
(* Mutant of ById: a later entry replaces an earlier one (insert).          *)
LastById(list) ==
    [id \in IdsOf(list) |-> SelectSeq(Reverse(list), LAMBDA x : x.id = id)[1]]

ById(list) ==
    [id \in IdsOf(list) |-> list[Least({i \in 1..Len(list) : list[i].id = id})]]

(* The records that name a scope, pushed one after the other to its list.   *)
ByScope(records) ==
    LET after[n \in 0..Len(records)] ==
            IF n = 0 THEN <<>>
            ELSE LET scope == records[n].scope
                     lists == after[n - 1]
                     list  == IF scope \in DOMAIN lists THEN lists[scope] ELSE <<>>
                 IN  IF scope = None THEN lists
                     ELSE (scope :> Append(list, records[n])) @@ lists
    IN  after[Len(records)]

ReplayIndex(records, scopes) ==
    [records |-> records, scopes |-> ById(scopes), byId |-> ById(records),
     byScope |-> ByScope(records)]

IndexedRecordsForScope(index, id) ==
    IF id \in DOMAIN index.byScope THEN index.byScope[id] ELSE <<>>

RecordsForScope(records, id) == SelectSeq(records, LAMBDA r : r.scope = id)

(* collect_outcomes: exits of scopes without metadata are left out.         *)
Outcomes(records, known) ==
    LET exits == SelectSeq(records, LAMBDA r : r.exit # None /\ r.scope \in DOMAIN known)
    IN  [k \in 1..Len(exits) |-> [scope |-> known[exits[k].scope], exit |-> exits[k].exit]]

ScopeOutcomes(records, scopes) == Outcomes(records, ById(scopes))
FailedScopes(records, scopes) ==
    SelectSeq(ScopeOutcomes(records, scopes), LAMBDA o : o.exit.outcome = "failure")

(* A stable sort, the longest first, and its first limit entries.           *)
SlowestScopes(records, scopes, limit) ==
    LET all     == ScopeOutcomes(records, scopes)
        time(i) == all[i].exit.duration
        rank(i) == Cardinality({j \in 1..Len(all) :
                       time(j) > time(i) \/ (time(j) = time(i) /\ j <= i)})
    IN  [k \in 1..(IF limit < Len(all) THEN limit ELSE Len(all)) |->
           all[CHOOSE i \in 1..Len(all) : rank(i) = k]]

-----------------------------------------------------------------------------
(* scope_tree: a depth-first walk with an explicit stack, over the          *)
(* positions of the scopes.                                                 *)

Positions(scopes, test(_)) == SelectSeq([i \in 1..Len(scopes) |-> i], test)
Children(scopes, id) == Positions(scopes, LAMBDA i : scopes[i].parent = id)
Roots(scopes)        == Positions(scopes, LAMBDA i : scopes[i].parent = None)

Frame(i) == [at |-> i, next |-> 1, children |-> <<>>]

(* What is on the way from the root once a scope is done with.              *)
(* Mutant of Leaving: the scope stays on the path.                          *)
NeverLeaving(path, id) == path
Leaving(path, id) == path \ {id}

(* One turn of the loop: to the next child, or back with the finished node. *)
Turn(scopes, s) ==
    LET top   == Last(s.stack)
        id    == scopes[top.at].id
        kids  == Children(scopes, id)
        up    == Front(s.stack)
        child == kids[top.next]
        on    == Append(up, [top EXCEPT !.next = @ + 1])
        node  == [at |-> top.at, children |-> top.children]
    IN  IF top.next <= Len(kids)
        THEN IF scopes[child].id \in s.path THEN [s EXCEPT !.stack = on]
             ELSE [s EXCEPT !.stack = Append(on, Frame(child)), !.path = @ \cup {scopes[child].id}]
        ELSE IF up = <<>>
        THEN [s EXCEPT !.stack = up, !.path = Leaving(@, id), !.roots = Append(@, node)]
        ELSE [s EXCEPT !.stack = [up EXCEPT ![Len(up)].children = Append(@, node)],
                       !.path = Leaving(@, id)]

RECURSIVE Walk(_, _)
Walk(scopes, s) == IF s.stack = <<>> THEN s ELSE Walk(scopes, Turn(scopes, s))

ScopeTree(scopes) ==
    LET roots == Roots(scopes)
        after[n \in 0..Len(roots)] ==
            IF n = 0 THEN [stack |-> <<>>, path |-> {}, roots |-> <<>>]
            ELSE Walk(scopes, [after[n - 1] EXCEPT !.stack = <<Frame(roots[n])>>,
                                                   !.path = @ \cup {scopes[roots[n]].id}])
    IN  after[Len(roots)].roots

(* render_scope_tree: its own stack, whose entries are pushed last first    *)
(* and left when popped a second time; the lines with their indentation.    *)
Entries(list, depth) == [k \in 1..Len(list) |-> [at |-> list[k], depth |-> depth, leaving |-> FALSE]]

RECURSIVE Render(_, _, _, _)
Render(scopes, stack, path, out) ==
    IF stack = <<>> THEN out
    ELSE LET top  == Head(stack)
             id   == scopes[top.at].id
             rest == Tail(stack)
         IN  IF top.leaving THEN Render(scopes, rest, path \ {id}, out)
             ELSE IF id \in path THEN Render(scopes, rest, path, out)
             ELSE Render(scopes,
                         Entries(Children(scopes, id), top.depth + 1)
                            \o <<[top EXCEPT !.leaving = TRUE]>> \o rest,
                         path \cup {id}, Append(out, [at |-> top.at, depth |-> top.depth]))

RenderScopeTree(scopes) == Render(scopes, Entries(Roots(scopes), 0), {}, <<>>)

-----------------------------------------------------------------------------
(* Properties, on the lists of the file, up to MaxLines of it, and on the   *)
(* loaded runs                                                              *)

RawScopes ==
    LET with == SelectSeq(input, LAMBDA l : l.run # 0 /\ l.entry.scope # None)
    IN  [k \in 1..Len(with) |-> with[k].entry.scope]
RawRecords ==
    LET with == SelectSeq(input, LAMBDA l : l.run # 0 /\ l.entry.record # None)
    IN  [k \in 1..Len(with) |-> with[k].entry.record]

Inspected == phase = "finished" /\ Len(input) <= MaxLines
Lists == {[records |-> RawRecords, scopes |-> RawScopes]}
         \cup {[records |-> runs[i].records, scopes |-> runs[i].scopes] : i \in 1..Len(runs)}

(* The nodes of a tree as the ways from a root to them, in preorder.        *)
RECURSIVE Preorder(_, _)
Preorder(nodes, above) ==
    IF nodes = <<>> THEN <<>>
    ELSE LET way == Append(above, Head(nodes).at)
         IN  <<way>> \o Preorder(Head(nodes).children, way) \o Preorder(Tail(nodes), above)

(* Every way down from a root that meets no identifier twice.               *)
Ways(scopes) ==
    LET down[n \in 1..Len(scopes)] ==
            IF n = 1 THEN {<<i>> : i \in {k \in 1..Len(scopes) : scopes[k].parent = None}}
            ELSE {w \in {Append(v, i) : v \in down[n - 1], i \in 1..Len(scopes)} :
                     /\ scopes[w[n]].parent = scopes[w[n - 1]].id
                     /\ \A k \in 1..(n - 1) : scopes[w[k]].id # scopes[w[n]].id}
    IN  UNION {down[n] : n \in 1..Len(scopes)}

(* w comes before v when ways are listed parents first, siblings in order.  *)
Precedes(w, v) ==
    \/ IsStrictPrefix(w, v)
    \/ \E k \in 1..Len(w) : k <= Len(v) /\ w[k] < v[k] /\ \A j \in 1..(k - 1) : w[j] = v[j]

(* "Reachable repeated-ID cycles are skipped": whatever parents the scopes  *)
(* claim, the tree holds exactly the ways down from a root that do not      *)
(* repeat an identifier, each once and in input order, whatever was on the  *)
(* path of another root; and the rendered text shows the same tree.         *)
TreeExact ==
    Inspected => \A l \in Lists :
        LET ways == Preorder(ScopeTree(l.scopes), <<>>)
        IN  /\ ToSet(ways) = Ways(l.scopes)
            /\ \A j, k \in 1..Len(ways) : j < k => Precedes(ways[j], ways[k])
            /\ RenderScopeTree(l.scopes)
                 = [k \in 1..Len(ways) |-> [at |-> Last(ways[k]), depth |-> Len(ways[k]) - 1]]

(* Nothing that failed is hidden: in a loaded run every exit record has its *)
(* outcome, in record order, the failed ones are among the failed scopes,   *)
(* and the tree shows every scope once, whatever metadata is lost or closes *)
(* a cycle.                                                                 *)
OutcomesComplete ==
    phase = "finished" => \A i \in 1..Len(runs) :
        LET run   == runs[i]
            exits == SelectSeq(run.records, LAMBDA r : r.exit # None)
            found == ScopeOutcomes(run.records, run.scopes)
            tree  == RenderScopeTree(run.scopes)
        IN  /\ [k \in 1..Len(found) |-> <<found[k].scope.id, found[k].exit>>]
                 = [k \in 1..Len(exits) |-> <<exits[k].scope, exits[k].exit>>]
            /\ {o.scope.id : o \in ToSet(FailedScopes(run.records, run.scopes))}
                 = {r.scope : r \in {x \in ToSet(exits) : x.exit.outcome = "failure"}}
            /\ Len(tree) = Cardinality(Ids(run))
            /\ {run.scopes[line.at].id : line \in ToSet(tree)} = Ids(run)

(* The map has, for every identifier of the list, its first entry.          *)
FirstEntries(map, list) ==
    /\ DOMAIN map = IdsOf(list)
    /\ \A i \in 1..Len(list) :
          (\A j \in 1..(i - 1) : list[j].id # list[i].id) => map[list[i].id] = list[i]

(* An index answers as a scan of the lists does, with repeated and          *)
(* contradictory entries: a record or a scope is the first entry with its   *)
(* identifier, the records of a scope come in order, outcomes have the      *)
(* first metadata of their scope; the slowest scopes come longest first,    *)
(* those that took equally long in the order of their exits; and on a       *)
(* loaded run no outcome is left out.                                       *)
QueriesAgree ==
    /\ OutcomesComplete
    /\ Inspected => \A l \in Lists :
          LET index   == ReplayIndex(l.records, l.scopes)
              exited  == Outcomes(index.records, index.scopes)
              took(i) == exited[i].exit.duration
              order   == SortSeq([i \in 1..Len(exited) |-> i],
                                 LAMBDA i, j : took(i) > took(j) \/ (took(i) = took(j) /\ i < j))
          IN  /\ FirstEntries(index.byId, l.records) /\ FirstEntries(index.scopes, l.scopes)
              /\ \A id \in (IdsOf(l.scopes) \cup {r.scope : r \in ToSet(l.records)}) \ {None} :
                    RecordsForScope(l.records, id) = IndexedRecordsForScope(index, id)
              /\ \A k \in 1..Len(exited) : \E i \in 1..Len(l.scopes) :
                    /\ exited[k].scope = l.scopes[i]
                    /\ \A j \in 1..(i - 1) : l.scopes[j].id # l.scopes[i].id
              /\ \A limit \in 0..Len(exited) :
                    SlowestScopes(l.records, l.scopes, limit)
                        = [k \in 1..limit |-> exited[order[k]]]
=============================================================================
