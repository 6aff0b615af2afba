------------------------ MODULE IncrementalIndexing ------------------------
(***************************************************************************)
(* The re-indexing of the local profile (IndexingService._index_repository *)
(* of indexing_service.py), which is incremental unless it is forced or    *)
(* there is no usable index: only changed files are parsed, and what the   *)
(* previous index has of the others is kept.                               *)
(*                                                                         *)
(* A snapshot is a repository of CodeGraph with the content of each file   *)
(* and the files that cannot be parsed; equal content is an equal module.  *)
(* The client that makes the HTTP calls never changes.                     *)
(***************************************************************************)
EXTENDS CodeGraph

---------------------------------------------------------------------------
(* _incremental_plan *)

Changed(index, snapshot) ==
  {p \in snapshot.files : p \notin index.files \/ index.content[p] # snapshot.content[p]}
Affected(index, snapshot) == Changed(index, snapshot) \cup (index.files \ snapshot.files)

CanIncrement(index, force) ==
  /\ ~force
  /\ index.status \in {"indexed", "indexed_with_warnings"}
  /\ index.version > 0
  /\ index.files # {}

---------------------------------------------------------------------------
(* _prepare_incremental_repository *)

NoFile == <<"none">>
Structural == {"folder", "file", "symbol", "endpoint"}

\* The file a node is of; modules, folders and the calls of the client have none.
FileOf(index, node) ==
  CASE node[1] \in {"file", "call_site"}         -> node[2]
    [] node[1] \in {"symbol", "unresolved_call"} -> node[2][1]
    [] node[1] = "endpoint" ->
         (CHOOSE m \in index.modules : \E e \in m.endpoints : EndpointNode(e) = node).file
    [] OTHER -> NoFile

Removed(index, affected) == {n \in index.graph.nodes : FileOf(index, n) \in affected}

\* An edge goes with either end, though its other end's file is not parsed again.
KeptEdges(index, affected) ==
  {e \in index.graph.edges : {e.source, e.target} \cap Removed(index, affected) = {}}

Kept(index, affected) ==
  [modules |-> {m \in index.modules : m.file \notin affected},
   failed  |-> index.failed \ affected,
   graph   |-> [nodes |-> {n \in index.graph.nodes \ Removed(index, affected) : n[1] \notin Structural},
                edges |-> KeptEdges(index, affected)]]

\* _clear_index
Nothing == [modules |-> {}, failed |-> {}, graph |-> [nodes |-> {}, edges |-> {}]]

---------------------------------------------------------------------------
(* _parse_scope and _merge_incremental_parse: to the parsers, the files of *)
(* the scope are the whole repository.                                     *)

Scope(snapshot, files) ==
  [snapshot EXCEPT !.files = files, !.modules = {m \in snapshot.modules : m.file \in files}]

Merged(kept, scope) ==
  [modules |-> kept.modules \cup scope.modules,
   failed  |-> kept.failed \cup (scope.failing \cap scope.files),
   graph   |-> Joined({kept.graph, AllEmitted(scope)})]

---------------------------------------------------------------------------
(* _index_repository, for a snapshot with at least one file.  The failures *)
(* are counted anew in every run, so only those of this run's files make   *)
(* the index one with warnings.                                            *)

IndexOf(snapshot, version, parsed, merged) ==
  [files |-> snapshot.files, content |-> snapshot.content, version |-> version,
   modules |-> merged.modules, failed |-> merged.failed,
   status |-> IF snapshot.failing \cap parsed # {} THEN "indexed_with_warnings" ELSE "indexed",
   graph |-> Normalized(Assembled([snapshot EXCEPT !.modules = merged.modules], merged.graph))]

Reindexed(index, snapshot, force) ==
  LET partial == CanIncrement(index, force)
      parsed  == IF partial THEN Changed(index, snapshot) ELSE snapshot.files
      kept    == IF partial THEN Kept(index, Affected(index, snapshot)) ELSE Nothing
  IN IndexOf(snapshot, index.version + 1, parsed, Merged(kept, Scope(snapshot, parsed)))

Unindexed == [files |-> {}, content |-> <<>>, version |-> 0, status |-> "created", modules |-> {}, failed |-> {},
              graph |-> [nodes |-> {}, edges |-> {}]]

---------------------------------------------------------------------------
(* Properties, of the re-indexing of a snapshot over an index.             *)

OfType(index, types) == {e \in index.graph.edges : e.type \in types}
BetweenFiles == {"imports_internal", "calls_api"}
Types(index) == {e.type : e \in index.graph.edges}

SameWithinFiles(partial, whole) ==
  /\ partial.modules = whole.modules
  /\ partial.failed = whole.failed
  /\ \A t \in (Types(partial) \cup Types(whole)) \ BetweenFiles : OfType(partial, {t}) = OfType(whole, {t})
  /\ whole.graph.nodes \subseteq partial.graph.nodes
  /\ \A n \in partial.graph.nodes \ whole.graph.nodes : n[1] = "module"
  /\ OfType(whole, {"calls_api"}) \subseteq OfType(partial, {"calls_api"})

\* What lies within a file is as in a full index, failures included; beyond it, only
\* modules nobody imports any more and calls of endpoints that have become ambiguous
\* are left over (_merge_incremental_parse, build_graph).
FilesAreAsInFull(index, snapshot) ==
  SameWithinFiles(Reindexed(index, snapshot, FALSE), Reindexed(index, snapshot, TRUE))

\* The imports between files are those that were known between files untouched since
\* and those found among the files parsed together; the others, in either direction
\* between a changed and an unchanged file, are lost until a full index finds them.
ImportsStayApart(index, snapshot) ==
  LET changed == Changed(index, snapshot)
      scope   == Scope(snapshot, changed)
      found   == {<<FileNode(m.file), FileNode(p)>> : <<m, p>> \in
                    {x \in scope.modules \X changed : \E i \in x[1].imports : ImportTargets(scope, i) = {FileNode(x[2])}}}
      ends(edges) == {<<e.source, e.target>> : e \in edges}
      untouched == {FileNode(p) : p \in index.files \ Affected(index, snapshot)}
  IN ends(OfType(Reindexed(index, snapshot, FALSE), {"imports_internal"})) =
       (ends(OfType(index, {"imports_internal"})) \cap (untouched \X untouched)) \cup found

\* After a full index of `previous`, an incremental one has every import a full one
\* has when no changed file imports an unchanged one or is imported by one (the
\* equivalence docs/05-domain-contracts/indexing.md:14 asks of every change).
SeparateChangesAreExact(previous, snapshot) ==
  LET index    == Reindexed(Unindexed, previous, TRUE)
      changed  == Changed(index, snapshot)
      present  == [snapshot EXCEPT !.files = previous.files \cup snapshot.files]
      separate == \A m \in snapshot.modules :
        UNION {ImportTargets(present, i) : i \in m.imports} \subseteq
          {FileNode(p) : p \in IF m.file \in changed THEN changed ELSE snapshot.files \ changed}
      imports(force) == OfType(Reindexed(index, snapshot, force), {"imports_internal"})
  IN separate => imports(FALSE) = imports(TRUE)
=============================================================================
