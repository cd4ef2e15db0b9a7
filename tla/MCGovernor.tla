----------------------------- MODULE MCGovernor -----------------------------
(* A small instance of Governor: a mutation tool, one verification command   *)
(* and an inline tool, with the results that make a difference to the plugin.*)
EXTENDS GovernorReplay, GovernorPromise

MCCalls       == {"edit", "test", "read"}
MCMutators    == {"edit"}
MCVerifiers   == {"test"}
MCInline      == {"read", "test"}
MCCommands    == {"npm test"}
MCCommandOf   == [c \in MCVerifiers |-> "npm test"]
MCContents    == {"ok", "bad", "pruned"}
MCExitOf      == [c \in MCContents |-> IF c = "bad" THEN "nonzero" ELSE "absent"]
MCInterrupted == {}
MCTokens      == {"test"}
MCTokensOf    == [c \in MCCommands |-> {"test"}]

Ok(call, content) == [call |-> call, content |-> content, isError |-> FALSE]

\* Every result.
AllObservations ==
  { Ok("edit", "ok"), [call |-> "edit", content |-> "bad", isError |-> TRUE],
    Ok("test", "ok"), Ok("test", "bad"), Ok("read", "ok") }

\* Without the failing edit, for runs that also restart or compact.
FewObservations == { Ok("edit", "ok"), Ok("test", "ok"), Ok("test", "bad"), Ok("read", "ok") }
=============================================================================
