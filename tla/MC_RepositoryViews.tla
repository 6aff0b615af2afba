------------------------ MODULE MC_RepositoryViews ------------------------
(* RepositoryViews with a few version numbers. *)
EXTENDS RepositoryViews
=============================================================================
