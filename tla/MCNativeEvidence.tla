-------------------------- MODULE MCNativeEvidence --------------------------
(* A small instance of NativeEvidence: instances of the plugin, a foreign    *)
(* wrapper, a call that dispatches another, and executions.                  *)
EXTENDS NativeEvidence

CONSTANTS outer, inner

MCParent == [c \in Calls |-> IF c = inner THEN outer ELSE None]
MCRoot   == [c \in Calls |-> outer]
=============================================================================
