----------------------------- MODULE DenseIndex -----------------------------
(***************************************************************************)
(* The dense embedding index of a version (embeddings/dense_index.py): its *)
(* builder asks a provider, batch by batch, and its loader decides whether *)
(* what is stored may be searched.                                         *)
(*                                                                         *)
(* Chunks are a function from ids to content hashes.  The provider is the  *)
(* sequence of its answers: the first to identity(), the others to one     *)
(* call of embed() each, as [model, dimension, complete].                  *)
(***************************************************************************)
EXTENDS Integers, FiniteSets, Functions, FiniteSetsExt

NoIndex == [version |-> 0, model |-> "none", records |-> 0, chunks |-> <<>>]

\* The calls of embed that the chunks need.
Batches(chunks, size) == (Cardinality(DOMAIN chunks) + size - 1) \div size

\* The batch of chunk c, in the order of the ids.
BatchOf(chunks, c, size) == (Cardinality({d \in DOMAIN chunks : d < c}) \div size) + 1

\* DenseIndexBuilder.build: NoIndex stands for its errors.
BuildDense(version, chunks, size, provider) ==
  LET calls == {provider[i + 1] : i \in 1..Batches(chunks, size)}
  IN IF \/ chunks = <<>>
        \/ \E a \in calls : ~a.complete
        \/ \E a, b \in calls : a.dimension # b.dimension
     THEN NoIndex
     ELSE [version |-> version, model |-> provider[1].model, records |-> Cardinality(DOMAIN chunks),
           chunks |-> [c \in DOMAIN chunks |->
                         [hash |-> chunks[c], vector |-> provider[BatchOf(chunks, c, size) + 1].model]]]

\* DenseIndexLoader.load: the index is of this version and model and holds
\* exactly the chunks of the caller.  That the stored bytes are those of the
\* reference is the digest's affair.
Loadable(index, version, model, chunks) ==
  /\ index # NoIndex
  /\ index.version = version /\ index.model = model
  /\ [c \in DOMAIN index.chunks |-> index.chunks[c].hash] = chunks
  /\ index.records = Cardinality(DOMAIN index.chunks)

---------------------------------------------------------------------------
IsChunks(chunks) == DOMAIN chunks \subseteq Nat /\ IsFiniteSet(DOMAIN chunks)

\* An index that is loaded has one vector of the present content of every chunk
\* and nothing else; the vectors are of one dimension, and of the model that is
\* searched with when the provider kept its model while it was built.  Only the
\* dimension is compared between batches: a model replaced by one of the same
\* dimension goes unnoticed (build).
LoadedIsCurrent(index, version, model, now, provider, calls) ==
  Loadable(index, version, model, now) =>
    /\ DOMAIN index.chunks = DOMAIN now
    /\ \A c \in DOMAIN now : index.chunks[c].hash = now[c]
    /\ \A i, j \in 2..(calls + 1) : provider[i].dimension = provider[j].dimension
    /\ (\A i \in 2..(calls + 1) : provider[i].model = provider[1].model) =>
         \A c \in DOMAIN now : index.chunks[c].vector = model
=============================================================================
