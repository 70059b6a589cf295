--------------------------- MODULE MCWorkspaceFiles ---------------------------
(* WorkspaceFiles for TLC: contents are interchangeable, and so are the    *)
(* clients.                                                                *)
EXTENDS WorkspaceFiles, TLC

Symmetry == Permutations(Hashes) \cup Permutations(Clients)
=============================================================================
