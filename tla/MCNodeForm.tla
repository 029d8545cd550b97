----------------------------- MODULE MCNodeForm -----------------------------
(***************************************************************************)
(* NodeForm with the node types of the packages.                           *)
(***************************************************************************)
EXTENDS NodeForm, NodePackages

Types == PACKAGES
=============================================================================
