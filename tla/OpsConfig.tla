------------------------------ MODULE OpsConfig ------------------------------
(***************************************************************************)
(* The operations config: which of the database, the environment and the    *)
(* default a key takes its value from.  Values are kept as strings; what    *)
(* matters is whether one is valid for its key.                             *)
(***************************************************************************)
CONSTANTS Valid,   \* the values that pass isValid for their key
          Unset    \* a missing row or variable

(* resolve: a missing or malformed value falls through to the next source. *)
Effective(db, env, default) ==
  IF db \in Valid THEN db ELSE IF env \in Valid THEN env ELSE default
=============================================================================
