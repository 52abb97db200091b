-------------------------- MODULE ClaudeTranslation --------------------------
(***************************************************************************)
(* Between the OpenAI and the Anthropic form of a conversation             *)
(* (gateway/providers/claude-code-api.ts).  Text and arguments are         *)
(* sequences of the pieces they are streamed in; a string is the content   *)
(* of one text part, and the empty string is no part.                      *)
(***************************************************************************)
EXTENDS ToolCallDeltas

TextOf(parts) ==
    LET IsText(part) == part.type = "text"
        texts == SelectSeq(parts, IsText)
    IN  FlattenSeq([i \in DOMAIN texts |-> texts[i].text])

TextBlocks(text) == IF text = <<>> THEN <<>> ELSE <<[type |-> "text", text |-> text]>>

\* toAnthropicContent(): what is neither text nor an image is left out.
ToAnthropicContent(parts) ==
    LET Known(part) == part.type \in {"text", "image"} IN SelectSeq(parts, Known)

\* The string "{}".  As the input of a tool use, the object {} has no pieces.
NoArguments == <<"{}">>

\* JSON.stringify(block.input ?? {})
Stringify(input) == IF input = <<>> THEN NoArguments ELSE input

\* JSON.parse(tc.function.arguments ?? "{}"): what does not parse, as the empty string,
\* becomes {}.
ParseArguments(args) == IF args \in {<<>>, <<"unparsable">>, NoArguments} THEN <<>> ELSE args

\* The tool_use block of a call in the history.
ToolUse(tc) ==
    [type |-> "tool_use", id |-> tc.call, name |-> tc.name, input |-> ParseArguments(tc.args)]

\* Mutant: text beside tool calls is dropped here too.
CallsOnly(msg) ==
    IF msg.calls = <<>> THEN TextBlocks(TextOf(msg.parts))
                        ELSE [i \in DOMAIN msg.calls |-> ToolUse(msg.calls[i])]

\* The blocks of an assistant's message: its text, then its tool calls.
AssistantBlocks(msg) ==
    TextBlocks(TextOf(msg.parts)) \o [i \in DOMAIN msg.calls |-> ToolUse(msg.calls[i])]

\* toAnthropicMessages(), one message.
ToAnthropicMessage(msg) ==
    CASE msg.role = "tool" ->
           [role |-> "user", blocks |-> <<[type |-> "tool_result", id |-> msg.answers,
                                           text |-> TextOf(msg.parts)]>>]
      [] msg.role = "assistant" ->
           [role |-> "assistant", blocks |-> AssistantBlocks(msg)]
      [] OTHER -> [role |-> "user", blocks |-> ToAnthropicContent(msg.parts)]

\* toAnthropicMessages(): instructions move out of the conversation.
ToAnthropicMessages(messages) ==
    LET Instructs(msg) == msg.role \in {"system", "developer"}
        Talks(msg) == ~Instructs(msg)
        talk == SelectSeq(messages, Talks)
        instructions == SelectSeq(messages, Instructs)
    IN  [system   |-> FlattenSeq([i \in DOMAIN instructions |-> TextOf(instructions[i].parts)]),
         messages |-> [i \in DOMAIN talk |-> ToAnthropicMessage(talk[i])]]

\* toAnthropicToolChoice()
ToAnthropicToolChoice(choice) ==
    CASE choice = "required" -> "any"
      [] choice \in {"none", "auto"} -> choice
      [] OTHER -> None

\* buildAnthropicRequest(): a tool choice goes with tools only.
BuildAnthropicRequest(request) ==
    LET conversation == ToAnthropicMessages(request.messages)
    IN  [system      |-> conversation.system,
         messages    |-> conversation.messages,
         tools       |-> request.tools,
         tool_choice |-> IF request.tools = {} THEN None
                                               ELSE ToAnthropicToolChoice(request.tool_choice),
         stream      |-> request.stream]
-----------------------------------------------------------------------------
ToFinishReason(stopReason) ==
    CASE stopReason = "tool_use" -> "tool_calls"
      [] stopReason = "max_tokens" -> "length"
      [] OTHER -> "stop"

\* buildOpenAIResponse(): text beside tool calls is dropped.
BuildOpenAIResponse(body) ==
    LET IsTool(block) == block.type = "tool_use"
        tools == SelectSeq(body.blocks, IsTool)
        calls == [i \in DOMAIN tools |-> [call |-> tools[i].id, name |-> tools[i].name,
                                          args |-> Stringify(tools[i].input)]]
    IN  [text   |-> IF calls = <<>> THEN TextOf(body.blocks) ELSE None,
         calls  |-> calls,
         finish |-> ToFinishReason(body.stop)]

\* The state of buildSseResponse(): blocks[i] is what the block with index i
\* became, the index of a tool call or None.
NewApiStream == [blocks |-> <<>>, toolCallCounter |-> 0]

ErrorChunk == Chunk(<<"[Error]">>, <<>>, "stop")

\* Mutant: the index of the block serves as the index of the tool call.
BlockAsCall(s, evt) == evt.index

\* const tcIdx = toolCallCounter++
CallIndex(s, evt) == s.toolCallCounter

\* buildSseResponse(): the chunks of one event of the Messages API, the new
\* state, and whether it reports a failure of the provider.
ApiEvent(s, evt) ==
    LET block(i) == s.blocks[i + 1]
        Out(state, chunks) == [state |-> state, chunks |-> chunks, failed |-> FALSE]
    IN  CASE evt.type = "message_start" -> Out(s, <<Chunk(<<>>, <<>>, None)>>)
          [] evt.type = "content_block_start" /\ evt.block = "tool_use" ->
               LET index == CallIndex(s, evt)
               IN  Out([blocks |-> Append(s.blocks, index),
                        toolCallCounter |-> s.toolCallCounter + 1],
                       <<Chunk(<<>>, <<Fragment(evt.id, index, evt.name, <<>>)>>, None)>>)
          [] evt.type = "content_block_start" /\ evt.block # "tool_use" ->
               Out([s EXCEPT !.blocks = Append(@, None)], <<>>)
          [] evt.type = "text_delta" -> Out(s, <<Chunk(<<evt.piece>>, <<>>, None)>>)
          [] evt.type = "input_json_delta" ->
               Out(s, IF block(evt.index) = None THEN <<>>
                      ELSE <<Chunk(<<>>, <<Fragment(evt.id, block(evt.index), None,
                                                    <<evt.piece>>)>>, None)>>)
          [] evt.type = "message_delta" ->
               Out(s, <<Chunk(<<>>, <<>>, ToFinishReason(evt.stop))>>)
          [] evt.type = "error" ->
               [state |-> s, chunks |-> <<ErrorChunk>>, failed |-> TRUE]
          [] OTHER -> Out(s, <<>>)

\* The events by which the Messages API streams a response (external).
ApiEvents(body) ==
    LET Deltas(i) ==
            LET b == body.blocks[i]
            IN  CASE b.type = "text" ->
                       [k \in DOMAIN b.text |-> [type |-> "text_delta", index |-> i - 1,
                                                 piece |-> b.text[k]]]
                  [] b.type = "tool_use" ->
                       [k \in DOMAIN b.input |-> [type |-> "input_json_delta", index |-> i - 1,
                                                  id |-> b.id, piece |-> b.input[k]]]
                  [] OTHER -> <<[type |-> "thinking_delta", index |-> i - 1]>>
        Begin(i) ==
            LET b == body.blocks[i]
            IN  IF b.type = "tool_use"
                THEN [type |-> "content_block_start", index |-> i - 1, block |-> b.type,
                      id |-> b.id, name |-> b.name]
                ELSE [type |-> "content_block_start", index |-> i - 1, block |-> b.type]
        Block(i) == <<Begin(i)>> \o Deltas(i) \o <<[type |-> "content_block_stop"]>>
    IN  <<[type |-> "message_start"]>>
          \o FlattenSeq([i \in DOMAIN body.blocks |-> Block(i)])
          \o IF body.stop = "error" THEN <<[type |-> "error"]>>
             ELSE <<[type |-> "message_delta", stop |-> body.stop], [type |-> "message_stop"]>>
=============================================================================
