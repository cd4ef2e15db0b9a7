-------------------------- MODULE CompletionPromise --------------------------
(***************************************************************************)
(* What evidence-bound completion promises of a session, without engines,  *)
(* generations or receipts: an agent comes to rest only on verified work,  *)
(* or when the units it could be sent back with are spent.  Fresh units    *)
(* come from a user's message, a crash or a compaction, and from nothing   *)
(* else; only those two disrupt what is known of the work.                 *)
(***************************************************************************)
EXTENDS Naturals

CONSTANTS Commands, Budget, Guarded

VARIABLES
  dirty,       \* the work was changed and no verification passed since
  failing,     \* commands whose last run failed
  spent,       \* units spent on sending the agent back
  waiting,     \* a message of the user waits
  resting,     \* the agent is at rest
  disruptions  \* crashes and compactions so far

work == <<dirty, failing>>
vars == <<dirty, failing, spent, waiting, resting, disruptions>>

Init ==
  /\ dirty = FALSE
  /\ failing = {}
  /\ spent = 0
  /\ waiting = FALSE
  /\ resting = TRUE
  /\ disruptions = 0

\* Something other than the user sets the agent going.
Wake ==
  /\ resting
  /\ resting' = FALSE
  /\ UNCHANGED <<work, spent, waiting, disruptions>>

Ask ==
  /\ waiting' = TRUE
  /\ resting' = FALSE
  /\ UNCHANGED <<work, spent, disruptions>>

\* The user's message is delivered.
Interject ==
  /\ ~resting
  /\ waiting
  /\ waiting' = FALSE
  /\ spent' = 0
  /\ UNCHANGED <<work, resting, disruptions>>

Change ==
  /\ ~resting
  /\ dirty' = TRUE
  /\ UNCHANGED <<failing, spent, waiting, resting, disruptions>>

\* A run of a command settles that command, and a pass settles the work.
Verify(c, status) ==
  /\ ~resting
  /\ dirty' = (dirty /\ status # "pass")
  /\ failing' = IF status = "fail" THEN failing \cup {c} ELSE failing \ {c}
  /\ UNCHANGED <<spent, waiting, resting, disruptions>>

SendBack ==
  /\ ~resting
  /\ spent < Budget
  /\ spent' = spent + 1
  /\ UNCHANGED <<work, waiting, resting, disruptions>>

\* The promise.
Rest ==
  /\ ~resting
  /\ ~waiting
  /\ Guarded /\ spent < Budget => ~dirty /\ failing = {}
  /\ resting' = TRUE
  /\ UNCHANGED <<work, spent, waiting, disruptions>>

Crash ==
  /\ disruptions' = disruptions + 1
  /\ spent' = 0
  /\ waiting' = FALSE
  /\ resting' = TRUE
  /\ UNCHANGED work

\* A compaction rewrites what is known of the work.
Rewrite ==
  /\ ~resting
  /\ disruptions' = disruptions + 1
  /\ dirty' \in BOOLEAN
  /\ failing' \in SUBSET Commands
  /\ spent' = 0
  /\ UNCHANGED <<waiting, resting>>

Next ==
  \/ Wake
  \/ Ask
  \/ Interject
  \/ Change
  \/ \E c \in Commands, status \in {"pass", "fail", "unknown"} : Verify(c, status)
  \/ SendBack
  \/ Rest
  \/ Crash
  \/ Rewrite

Spec == Init /\ [][Next]_vars
=============================================================================
