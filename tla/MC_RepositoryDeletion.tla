------------------------ MODULE MC_RepositoryDeletion ------------------------
EXTENDS RepositoryDeletion
=============================================================================
