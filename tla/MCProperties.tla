---------------------------- MODULE MCProperties ----------------------------
(* Instance of Properties: two properties that are watched as they are sent  *)
(* and one whose watcher expects another type.                               *)
EXTENDS Properties

CONSTANTS speed, level, label

MCNames == {speed, level, label}
MCMistyped == {label}
=============================================================================
