----------------------------- MODULE MCJiraPaging -----------------------------
(* JiraPaging for TLC. *)
EXTENDS JiraPaging
=============================================================================
