--------------------------- MODULE MCEngineSession --------------------------
(* A small instance of EngineSession: one mutation tool, two verification    *)
(* commands and one inline tool; a failed edit is a tool result that is      *)
(* neither a mutation nor inline.                                            *)
EXTENDS EngineSession

MCCalls      == {"edit", "test", "read", "lint"}
MCMutators   == {"edit"}
MCVerifiers  == {"test", "lint"}
MCInline     == {"read", "test", "lint"}
MCCommands   == {"npm test", "npm run lint"}
MCCommandOf  == [c \in MCVerifiers |-> IF c = "test" THEN "npm test" ELSE "npm run lint"]
MCContents   == {"a", "b", "killed"}
MCExitOf     == [c \in MCContents |-> IF c = "b" THEN "nonzero" ELSE "absent"]
MCInterrupted == {"killed"}

Ok(call, content) == [call |-> call, content |-> content, isError |-> FALSE]

MCObservations ==
  { Ok("edit", "a"),
    [call |-> "edit", content |-> "a", isError |-> TRUE],
    Ok("test", "a"), Ok("test", "b"), Ok("test", "killed"),
    Ok("read", "a"), Ok("read", "b"), Ok("lint", "a") }
=============================================================================
