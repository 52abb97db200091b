----------------------------- MODULE StreamRelay -----------------------------
(***************************************************************************)
(* One streamed completion: handleStreamingRequest() (routes/v1/chat.ts)   *)
(* relays what reader.read() yields through the StreamingPipeline          *)
(* (gateway/streaming/pipeline.ts) to a client that may leave at any time. *)
(* The body is the upstream's own (kind "http"), cut into reads anywhere,  *)
(* or is written by a claude provider (kinds "api" and "cli") that goes on *)
(* by itself in the start() of a ReadableStream.                           *)
(***************************************************************************)
EXTENDS SseStreams, ClaudeTranslation, ClaudeCli

CONSTANT Scenarios    \* what an upstream may have to say

IsSequence(s) == s \in Seq({s[i] : i \in DOMAIN s})

IsChunk(value) == value = Chunk(value.text, value.calls, value.finish) /\ IsSequence(value.text)

\* What an http upstream sends: its lines end in LF or in CRLF, an event of data
\* has a line, the lines are made of payloads alone, [DONE] is the done event, and
\* the JSON are chunks.
SpeaksSse(s) ==
    /\ s.eol \in {<<LF>>, <<CR, LF>>} /\ s.sloppy \in BOOLEAN
    /\ IsSequence(s.events)
    /\ \A i \in DOMAIN s.events :
          LET event == s.events[i]
          IN  \/ event \in {DoneEvent, CommentEvent}
              \/ /\ event = DataEvent(event.data)
                 /\ event.data \notin {<<>>, <<<<Payload(Done)>>>>}
                 /\ IsSequence(event.data)
                 /\ \A j \in DOMAIN event.data :
                       /\ IsSequence(event.data[j])
                       /\ \A k \in DOMAIN event.data[j] :
                             LET value == event.data[j][k].value
                             IN  event.data[j][k] = Payload(value) /\ (value.json => IsChunk(value))

ASSUME ScenariosAssumption ==
    \A s \in Scenarios :
       /\ s.kind = "http" => SpeaksSse(s)
       /\ s.kind = "cli" => /\ IsSequence(s.events)
                            /\ \A i \in DOMAIN s.events : s.events[i].type = "assistant" =>
                                  IsSequence(ExtractAssistantText(s.events[i].blocks))

\* The chunk of a data event, if JSON.parse() understands it.
Parses(event) ==
    /\ event.type = "data" /\ Len(event.data) = 1 /\ Len(event.data[1]) = 1
    /\ event.data[1][1].value.json
ChunkOf(event) == event.data[1][1].value
EventOf(chunk) == DataEvent(<<<<Payload(chunk)>>>>)

\* The fragments of tool calls that an http upstream streams.
CallsOf(event) == IF Parses(event) THEN ChunkOf(event).calls ELSE <<>>
StreamedCalls(events) == FlattenSeq([i \in DOMAIN events |-> CallsOf(events[i])])

\* A message of the Messages API tells its tool uses apart by their ids; the blocks are
\* streamed in pieces.
SpeaksAnthropic(answer) ==
    LET blocks == answer.blocks
        IsTool(i) == blocks[i].type = "tool_use"
    IN  /\ IsSequence(blocks)
        /\ \A i \in DOMAIN blocks :
              /\ blocks[i].type = "text" => IsSequence(blocks[i].text)
              /\ IsTool(i) => IsSequence(blocks[i].input)
        /\ \A i, j \in DOMAIN blocks : IsTool(i) /\ IsTool(j) /\ i # j => blocks[i].id # blocks[j].id

ASSUME CallsAssumption ==
    \A s \in Scenarios :
       /\ s.kind = "http" => /\ \A i \in DOMAIN s.events :
                                   LET calls == CallsOf(s.events[i])
                                   IN  IsSequence(calls) /\ \A k \in DOMAIN calls : IsFragment(calls[k])
                             /\ StreamsCalls(s.provider, StreamedCalls(s.events))
       /\ s.kind = "api" => s.provider \notin {"gemini", "ollama"} /\ SpeaksAnthropic(s.answer)

VARIABLES scenario,      \* the upstream of this request
          phase,         \* the handler: routing, relaying, ended
          client,        \* connected or gone
          clientClosed,  \* the handler's flag of that name
          heartbeat,     \* the interval is running
          body,          \* response.body: open, closed, broken or cancelled
          taken,         \* http: pieces of the wire read so far
          producer,      \* api, cli: events handled, the state between them, still running
          queue,         \* api, cli: events enqueued and not yet read
          buffer,        \* SSEParser.buffer
          pipeline,      \* the normalizer's state, accumulated and chunkCount
          written,       \* what reached the client
          log,           \* the entries this request added to the request log
          charged,       \* requests charged to the virtual key
          failures,      \* calls of provider.onError() by the stream
          broke          \* history: the upstream failed while streaming

vars == <<scenario, phase, client, clientClosed, heartbeat, body, taken, producer, queue,
          buffer, pipeline, written, log, charged, failures, broke>>

producerVars == <<taken, producer, queue, failures, broke>>
relayVars == <<buffer, pipeline, written>>
routeVars == <<scenario, phase, clientClosed, heartbeat, log, charged>>

KeepAlive == [type |-> "comment", text |-> "keep-alive"]

\* The bytes of an http upstream, the last event perhaps without its blank line.
Wire(s) ==
    LET all == FlattenSeq([i \in DOMAIN s.events |-> Serialize(s.events[i], s.eol)])
    IN  IF s.sloppy THEN SubSeq(all, 1, Len(all) - Len(s.eol)) ELSE all

NewPipeline == [normalizer |-> NewNormalizer, accumulated |-> <<>>, chunkCount |-> 0]

Init ==
    /\ scenario \in Scenarios
    /\ phase = "routing" /\ client = "connected" /\ clientClosed = FALSE
    /\ heartbeat = FALSE /\ body = "open"
    /\ taken = 0 /\ queue = <<>> /\ buffer = <<>> /\ written = <<>>
    /\ producer = [fed |-> 0, running |-> scenario.kind \in {"api", "cli"},
                   state |-> IF scenario.kind = "api" THEN NewApiStream ELSE <<>>]
    /\ pipeline = NewPipeline
    /\ log = <<>> /\ charged = 0 /\ failures = 0 /\ broke = FALSE

\* renderEvents(), one event: what cannot be parsed is forwarded as it is.
RenderEvent(acc, event) ==
    LET fixed == Transform(scenario.provider, acc.pipe.normalizer, ChunkOf(event))
    IN  IF ~Parses(event) THEN [acc EXCEPT !.out = Append(@, event)]
        ELSE [out  |-> Append(acc.out, EventOf(fixed.chunk)),
              pipe |-> [normalizer  |-> fixed.state,
                        accumulated |-> acc.pipe.accumulated \o ChunkOf(event).text,
                        chunkCount  |-> acc.pipe.chunkCount + 1]]

\* renderEvents()
Rendered(pipe, events) ==
    LET after[i \in 0 .. Len(events)] ==
           IF i = 0 THEN [out |-> <<>>, pipe |-> pipe] ELSE RenderEvent(after[i - 1], events[i])
    IN  after[Len(events)]

\* pipeline.flush(): what the parser still held, rendered.
Drained(pipe, unread) == Rendered(pipe, Flush(unread))

\* res.write(), by what reaches the client: Node discards what is written to a socket
\* that has closed, as the handler's tail and its heartbeat still may be.
Write(events) == written' = IF client = "connected" THEN written \o events ELSE written

\* One turn of the read loop.
Relay(text) ==
    LET pushed   == Push(buffer, text)
        rendered == Rendered(pipeline, pushed.events)
    IN  /\ buffer' = pushed.buffer
        /\ pipeline' = rendered.pipe
        /\ Write(rendered.out)

\* Mutant: a relay that failed is charged too.
ChargesAnyway(status) ==
    /\ phase' = "ended" /\ heartbeat' = FALSE
    /\ log' = Append(log, status) /\ charged' = charged + 1
    /\ UNCHANGED relayVars

\* After the loop: on success the tail is drained, the request logged and
\* charged, whether the client is still there or not; on an error it is logged.
EndRelay(status) ==
    /\ phase' = "ended" /\ heartbeat' = FALSE
    /\ log' = Append(log, status)
    /\ IF status = "success"
       THEN LET rendered == Drained(pipeline, buffer)
            IN  /\ Write(rendered.out)
                /\ pipeline' = rendered.pipe /\ buffer' = <<>>
                /\ charged' = charged + 1
       ELSE UNCHANGED <<relayVars, charged>>
-----------------------------------------------------------------------------
\* routeStream() resolves; only now does the handler listen for "close".
Routed ==
    /\ phase = "routing" /\ scenario.kind # "empty"
    /\ phase' = "relaying" /\ heartbeat' = TRUE
    /\ UNCHANGED <<scenario, client, clientClosed, body, log, charged, relayVars, producerVars>>

\* It resolves with a response that has no body.
RoutedWithoutBody ==
    /\ phase = "routing" /\ scenario.kind = "empty"
    /\ phase' = "ended"
    /\ log' = Append(log, "success") /\ charged' = charged + 1
    /\ Write(<<DoneEvent>>)
    /\ UNCHANGED <<scenario, client, clientClosed, heartbeat, body, buffer, pipeline, producerVars>>

\* It throws: the error goes to the error handler, for no header has been sent.
RouteFails ==
    \E status \in {"error", "all_providers_failed"} :
       /\ phase = "routing"
       /\ phase' = "ended"
       /\ log' = Append(log, status)
       /\ producer' = [producer EXCEPT !.running = FALSE]
       /\ UNCHANGED <<scenario, client, clientClosed, heartbeat, body, charged, relayVars,
                      taken, queue, failures, broke>>

\* Mutant: reader.cancel() is left out.
JustLeaves ==
    /\ client = "connected" /\ phase # "ended"
    /\ client' = "gone"
    /\ clientClosed' = (phase = "relaying")
    /\ UNCHANGED <<scenario, phase, heartbeat, log, charged, body, relayVars, producerVars>>

\* The client disconnects; the listener, if there is one, cancels the reader.
ClientLeaves ==
    /\ client = "connected" /\ phase # "ended"
    /\ client' = "gone"
    /\ clientClosed' = (phase = "relaying")
    /\ IF phase = "relaying" /\ body # "broken"
       THEN body' = "cancelled" /\ queue' = <<>>
       ELSE UNCHANGED <<body, queue>>
    /\ UNCHANGED <<scenario, phase, heartbeat, log, charged, relayVars,
                   taken, producer, failures, broke>>

\* reader.read() yields the next piece of an http body, of any length.
Read ==
    /\ phase = "relaying" /\ body = "open" /\ scenario.kind = "http"
    /\ \E upTo \in taken + 1 .. Len(Wire(scenario)) :
          /\ Relay(SubSeq(Wire(scenario), taken + 1, upTo))
          /\ taken' = upTo
    /\ UNCHANGED <<routeVars, client, body, producer, queue, failures, broke>>

\* reader.read() yields what a claude provider enqueued.
ReadQueued ==
    /\ phase = "relaying" /\ queue # <<>>
    /\ Relay(Serialize(Head(queue), <<LF>>))
    /\ queue' = Tail(queue)
    /\ UNCHANGED <<routeVars, client, body, taken, producer, failures, broke>>

NothingToRead == phase = "relaying" /\ body # "open" /\ queue = <<>>

\* The loop ends: there is nothing more to read, or clientClosed is set.
Finish ==
    /\ NothingToRead /\ body # "broken"
    /\ EndRelay("success")
    /\ UNCHANGED <<scenario, client, clientClosed, body, producerVars>>

\* reader.read() rejects.
FinishBroken ==
    /\ NothingToRead /\ body = "broken"
    /\ EndRelay("error")
    /\ UNCHANGED <<scenario, client, clientClosed, body, producerVars>>

\* The interval writes a comment (once in a run of the model).
Heartbeat ==
    /\ heartbeat
    /\ ~Contains(written, KeepAlive)
    /\ Write(<<KeepAlive>>)
    /\ UNCHANGED <<routeVars, client, body, buffer, pipeline, producerVars>>
-----------------------------------------------------------------------------
\* An http upstream closes its connection when all is sent, or breaks it.
UpstreamEnds ==
    /\ phase = "relaying" /\ scenario.kind = "http" /\ body = "open"
    /\ \/ taken = Len(Wire(scenario)) /\ body' = "closed" /\ UNCHANGED broke
       \/ body' = "broken" /\ broke' = TRUE
    /\ UNCHANGED <<routeVars, client, relayVars, taken, producer, queue, failures>>

Upstream == IF scenario.kind = "api" THEN ApiEvents(scenario.answer) ELSE scenario.events

Produced(evt) == IF scenario.kind = "api" THEN ApiEvent(producer.state, evt)
                                          ELSE CliEvent(producer.state, evt)

\* A claude provider's loop is over: controller.enqueue() and close(), which
\* throw when the reader was cancelled; the catch counts that as a failure and
\* throws again.
Close(chunks, failed) ==
    /\ producer' = [producer EXCEPT !.running = FALSE]
    /\ IF body = "open"
       THEN /\ queue' = queue \o [i \in DOMAIN chunks |-> EventOf(chunks[i])] \o <<DoneEvent>>
            /\ body' = "closed"
            /\ failures' = failures + (IF failed THEN 1 ELSE 0)
       ELSE /\ failures' = failures + 1
            /\ UNCHANGED <<queue, body>>

\* One event of the upstream.
Produce ==
    /\ phase # "routing" /\ producer.running /\ producer.fed < Len(Upstream)
    /\ LET evt == Upstream[producer.fed + 1]
           r   == Produced(evt)
           throws == r.chunks # <<>> /\ body # "open"
       IN  /\ producer' = [fed |-> producer.fed + 1, state |-> r.state, running |-> ~throws]
           /\ queue' = IF throws THEN queue
                       ELSE queue \o [i \in DOMAIN r.chunks |-> EventOf(r.chunks[i])]
           /\ failures' = failures + (IF r.failed THEN 1 ELSE 0) + (IF throws THEN 1 ELSE 0)
           /\ broke' = (broke \/ r.failed)
    /\ UNCHANGED <<routeVars, client, body, relayVars, taken>>

\* Its events are over: the response ended, the process exited with code 0.
ProducerEnds ==
    /\ phase # "routing" /\ producer.running /\ producer.fed = Len(Upstream)
    /\ scenario.kind = "cli" => scenario.exitCode = 0
    /\ Close(<<>>, FALSE)
    /\ UNCHANGED <<routeVars, client, relayVars, taken, broke>>

\* The connection breaks anywhere; the process exits with another code.
ProducerBreaks ==
    /\ phase # "routing" /\ producer.running
    /\ scenario.kind = "cli" => producer.fed = Len(Upstream) /\ scenario.exitCode # 0
    /\ Close(<<ErrorChunk>>, TRUE)
    /\ broke' = TRUE
    /\ UNCHANGED <<routeVars, client, relayVars, taken>>

Ended == phase = "ended" /\ ~producer.running /\ UNCHANGED vars

Next == \/ Routed \/ RoutedWithoutBody \/ RouteFails \/ ClientLeaves
        \/ Read \/ ReadQueued \/ Finish \/ FinishBroken \/ Heartbeat
        \/ UpstreamEnds \/ Produce \/ ProducerEnds \/ ProducerBreaks \/ Ended

\* The handler's own steps, ReadQueued, Finish and FinishBroken, are fair: they
\* are named by what they do to the queue and to the phase.  Upstreams and
\* clients owe it nothing.
Spec == /\ Init /\ [][Next]_vars
        /\ WF_queue(phase = "relaying" /\ queue # <<>> /\ queue' = Tail(queue))
        /\ WF_phase(NothingToRead /\ phase' = "ended")
-----------------------------------------------------------------------------
FromUpstream == LET Sent(i) == written[i] # KeepAlive IN Selected(written, Sent)
ChunksSeen ==
    LET Seen(i) == Parses(written[i])
        seen == Selected(written, Seen)
    IN  [i \in DOMAIN seen |-> ChunkOf(seen[i])]
Delivered == phase = "ended" /\ body = "closed" /\ client = "connected"
Complete == Delivered /\ ~broke

\* The error events of the Messages API that its provider's loop has handled.
ErrorsHandled ==
    {i \in 1 .. producer.fed : scenario.kind = "api" /\ Upstream[i].type = "error"}

\* Every request is logged once and charged exactly when it was logged as a success,
\* the heartbeat stops with the relay, and the provider is blamed once for each error
\* event and at most once more, when its loop is over; without a failure of its
\* upstream, only when the client left.
RelayBooks ==
    /\ phase \in {"routing", "relaying", "ended"}
    /\ Len(log) = (IF phase = "ended" THEN 1 ELSE 0)
    /\ charged = Cardinality({i \in DOMAIN log : log[i] = "success"})
    /\ heartbeat <=> phase = "relaying"
    /\ failures <= Cardinality(ErrorsHandled) + (IF producer.running THEN 0 ELSE 1)
    /\ ~broke => failures <= (IF clientClosed THEN 1 ELSE 0)

\* The books of a stream, with the text that is logged: what a client that stayed
\* has read (handleStreamingRequest, buildSseResponse).
StreamBooks ==
    /\ RelayBooks
    /\ client = "connected" =>
          pipeline.accumulated = FlattenSeq([i \in DOMAIN ChunksSeen |-> ChunksSeen[i].text])

\* However the network cuts the bytes, within a CRLF or between the line ends of
\* an event too, the client reads the events the upstream sent, in order and
\* normalized, each of them once, and all of them when the stream completes,
\* the last one without its blank line included (SSEParser, renderEvents).
ClientSeesEvents ==
    scenario.kind = "http" =>
       LET expected == Rendered(NewPipeline, scenario.events).out
       IN  /\ IsPrefix(FromUpstream, expected)
           /\ Complete => FromUpstream = expected

\* The client can put every tool call together: fragments have the same index
\* exactly if they belong to the same call, and their arguments are in place,
\* for upstreams that stream calls the way Gemini and Ollama do
\* (indexForToolCall, fixToolCall, content_block_start).
CallsStayApart ==
    LET fragments == FlattenSeq([i \in DOMAIN ChunksSeen |-> ChunksSeen[i].calls])
    IN  \A i, j \in DOMAIN fragments :
           /\ fragments[i].index # None /\ ~fragments[i].hoisted
           /\ fragments[i].call = fragments[j].call <=> fragments[i].index = fragments[j].index

\* A call as the JSON answer has it, with the arguments it has in the stream: none
\* are streamed as the empty string, which is not the JSON object {}.
AsStreamed(call) == [call EXCEPT !.args = IF @ = NoArguments THEN <<>> ELSE @]

\* A complete stream of a claude provider tells the client what the JSON answer
\* to the same request would have: the same tool calls and finish reason, and
\* the same text where that answer has one; and a stream that reaches its end
\* shows an error exactly if the upstream failed, so that what is left of it is
\* not taken for the answer (buildSseResponse against buildOpenAIResponse and
\* buildJsonResponse).
StreamTellsTheAnswer ==
    LET told == Assembled(ChunksSeen)
    IN  /\ Complete /\ scenario.kind = "api" =>
              LET answer == BuildOpenAIResponse(scenario.answer)
              IN  /\ told.finish = answer.finish
                  /\ DOMAIN told.calls = 0 .. Len(answer.calls) - 1
                  /\ \A i \in DOMAIN answer.calls :
                        told.calls[i - 1] = AsStreamed(answer.calls[i])
                  /\ answer.text \in {None, told.text}
        /\ Complete /\ scenario.kind = "cli" =>
              LET answer == CliAnswer(scenario.events, scenario.exitCode)
              IN  answer # None => /\ told.finish = answer.finish
                                   /\ answer.text \in {<<>>, told.text}
        /\ Delivered /\ scenario.kind \in {"api", "cli"} =>
              (broke <=> Contains(ChunksSeen, ErrorChunk))

\* The client goes on with what it was told, after instructions and a question,
\* with a result for every call.
NextTurn ==
    LET told  == Assembled(ChunksSeen)
        calls == [i \in 1 .. Cardinality(DOMAIN told.calls) |-> told.calls[i - 1]]
        Said(role, text) == [role |-> role, parts |-> <<[type |-> "text", text |-> text]>>,
                             calls |-> <<>>]
        Result(call) == [role |-> "tool", parts |-> <<>>, calls |-> <<>>, answers |-> call.call]
    IN  [messages |-> <<Said("system", <<"be brief">>), Said("user", <<"hello">>),
                        [Said("assistant", told.text) EXCEPT !.calls = calls]>>
                        \o [i \in DOMAIN calls |-> Result(calls[i])],
         tools |-> {calls[i].name : i \in DOMAIN calls},
         tool_choice |-> "auto", stream |-> TRUE]

\* What Claude said comes back to it in the next request of the conversation:
\* its text and its tool uses, in order, and a result for each of them by its
\* id, with the instructions kept apart (toAnthropicMessages).
AnswerComesBack ==
    Complete /\ scenario.kind = "api" =>
       LET next == BuildAnthropicRequest(NextTurn).messages
           Kept(block) == block.type # "thinking"
           IsTool(block) == block.type = "tool_use"
           said  == SelectSeq(scenario.answer.blocks, Kept)
           tools == SelectSeq(said, IsTool)
       IN  /\ next[2] = [role |-> "assistant", blocks |-> said]
           /\ [i \in 3 .. Len(next) |-> next[i].blocks[1].id]
                 = [i \in 3 .. Len(tools) + 2 |-> tools[i - 2].id]

\* A relay ends when the upstream has ended or failed, and when the client has
\* left, even if the upstream is silent from then on (res.on("close"),
\* reader.cancel()).
Ends == clientClosed \/ body # "open" ~> phase = "ended"

\* Once the handler knows that the client has gone, it takes nothing more from the
\* body: no byte of an http upstream is read, nothing more goes through the pipeline
\* until the tail, and what a claude provider makes is kept nowhere.  Nobody tells
\* that provider's own loop, which reads on while it has nothing to send; the first
\* thing it would send is its end (res.on("close"), reader.cancel(), send).
GoneIsLeftAlone ==
    [][clientClosed =>
          /\ taken' = taken /\ queue' = <<>>
          /\ phase' = "relaying" => UNCHANGED <<buffer, pipeline>>
          /\ producer'.fed # producer.fed /\ producer'.running =>
                Produced(Upstream[producer'.fed]).chunks = <<>>]_vars
=============================================================================
