-------------------------------- MODULE Null --------------------------------
(* What a variable or a column without a value holds: None, or SQL's NULL. *)
CONSTANT None
=============================================================================
