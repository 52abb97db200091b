------------------------------ MODULE ClaudeCli ------------------------------
(***************************************************************************)
(* What provider claude-code makes of the events the Claude CLI prints     *)
(* (gateway/providers/claude-code.ts): as one JSON answer, or as a stream. *)
(***************************************************************************)
EXTENDS ToolCallDeltas

\* extractAssistantText(): the first text block.
ExtractAssistantText(blocks) ==
    LET IsText(block) == block.type = "text"
        texts == SelectSeq(blocks, IsText)
    IN  IF texts = <<>> THEN <<>> ELSE texts[1].text

\* buildJsonResponse(): the answer, or None where it throws.
CliAnswer(events, exitCode) ==
    LET Result(evt) == evt.type = "result"
        Succeeds(evt) == Result(evt) /\ evt.subtype = "success"
        results == SelectSeq(events, Result)
        successes == SelectSeq(events, Succeeds)
        Ended(subtype) == \E i \in DOMAIN results : results[i].subtype = subtype
    IN  IF exitCode # 0 \/ Ended("error_during_execution") THEN None
        ELSE [text   |-> IF successes = <<>> THEN <<>> ELSE Last(successes).result,
              finish |-> IF Ended("error_max_turns") THEN "length" ELSE "stop"]

\* The part of an accumulated text that is new.
NewText(prevText, text) ==
    IF Len(text) > Len(prevText)
    THEN [prevText |-> text, delta |-> SubSeq(text, Len(prevText) + 1, Len(text))]
    ELSE [prevText |-> prevText, delta |-> <<>>]

\* buildSseResponse(): the chunks of one event.
CliEvent(prevText, evt) ==
    LET Out(prev, chunks) == [state |-> prev, chunks |-> chunks, failed |-> FALSE]
        new == NewText(prevText, ExtractAssistantText(evt.blocks))
    IN  CASE evt.type = "assistant" ->
               Out(new.prevText,
                   IF new.delta = <<>> THEN <<>> ELSE <<Chunk(new.delta, <<>>, None)>>)
          [] evt.type = "result" ->
               Out(prevText, <<Chunk(<<>>, <<>>, IF evt.subtype = "error_max_turns"
                                                  THEN "length" ELSE "stop")>>)
          [] OTHER -> Out(prevText, <<>>)
=============================================================================
