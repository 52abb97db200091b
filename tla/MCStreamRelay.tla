---------------------------- MODULE MCStreamRelay ----------------------------
EXTENDS StreamRelay, TLC

NameOf(call) == "name of " \o call

Piece(call, named, index) ==
    Fragment(call, index, IF named THEN NameOf(call) ELSE None, <<"args">>)

\* Gemini: no index; a call begins with its name, and fragments without a name
\* continue the call that began last.
GeminiCalls ==
    {s \in SeqOf({Piece(c, n, None) : c \in {"a", "b"}, n \in BOOLEAN}, 3) :
       LET First(i) == \A j \in 1 .. i - 1 : s[j].call # s[i].call
           Newest(i) == \A j \in 1 .. i - 1 : First(j) /\ s[j].call # s[i].call =>
                           \E k \in j .. i : First(k) /\ s[k].call = s[i].call
       IN  \A i \in DOMAIN s : IF s[i].name = None THEN ~First(i) /\ Newest(i) ELSE TRUE}

\* Ollama: one call at a time, in fragments whose arguments may be outside the
\* function object, or several calls with their index.
OllamaCalls ==
    {<<Piece("a", TRUE, None), [Piece("a", FALSE, None) EXCEPT !.hoisted = TRUE]>>,
     <<[Piece("a", TRUE, None) EXCEPT !.hoisted = TRUE], Piece("a", FALSE, None)>>,
     <<Piece("a", TRUE, 0), Piece("b", TRUE, 1), Piece("b", FALSE, None)>>}

CallChunks(calls) == [i \in DOMAIN calls |-> EventOf(Chunk(<<>>, <<calls[i]>>, None))]
InOneChunk(calls) == <<EventOf(Chunk(<<>>, calls, None))>>

NotJson == DataEvent(<<<<Payload([json |-> FALSE])>>>>)
Plain == <<EventOf(Chunk(<<"x">>, <<>>, None)), CommentEvent, NotJson,
           DataEvent(<<<<Payload([json |-> FALSE])>>, <<Payload([json |-> FALSE])>>>>),
           EventOf(Chunk(<<"y">>, <<>>, "stop"))>>

Http(provider, events, eol, sloppy) ==
    [kind |-> "http", provider |-> provider, events |-> events \o <<DoneEvent>>,
     eol |-> eol, sloppy |-> sloppy]

Tool(id, input) == [type |-> "tool_use", id |-> id, name |-> NameOf(id), input |-> input]
Answers ==
    {[blocks |-> <<[type |-> "text", text |-> <<"x", "y">>]>>, stop |-> "end_turn"],
     [blocks |-> <<[type |-> "thinking"], [type |-> "text", text |-> <<"x">>], Tool("a", <<"1", "2">>),
                   Tool("b", <<"3">>)>>, stop |-> "tool_use"],
     [blocks |-> <<Tool("a", <<>>), Tool("b", <<"3">>)>>, stop |-> "tool_use"],
     [blocks |-> <<[type |-> "text", text |-> <<"x">>]>>, stop |-> "error"]}

Assistant(text) == [type |-> "assistant", blocks |-> <<[type |-> "text", text |-> text]>>]
Result(subtype, text) == [type |-> "result", subtype |-> subtype, result |-> text]
Outputs ==
    {<<[type |-> "system"], Assistant(<<"x">>), Assistant(<<"x">>), Assistant(<<"x", "y">>),
       Result("success", <<"x", "y">>)>>,
     <<Assistant(<<"x">>), Result("error_max_turns", <<>>)>>}

MCScenarios ==
    {Http("gemini", CallChunks(c), <<LF>>, FALSE) : c \in GeminiCalls}
      \cup {Http("gemini", InOneChunk(c), <<LF>>, FALSE) : c \in GeminiCalls \ {<<>>}}
      \cup {Http("ollama", CallChunks(c), <<CR, LF>>, TRUE) : c \in OllamaCalls}
      \cup {Http("groq", Plain, eol, sloppy) : eol \in {<<LF>>, <<CR, LF>>}, sloppy \in BOOLEAN}
      \cup {[kind |-> "api", provider |-> "claude-code-api", answer |-> a] : a \in Answers}
      \cup {[kind |-> "cli", provider |-> "claude-code", events |-> e, exitCode |-> x] :
               e \in Outputs, x \in {0, 1}}
      \cup {[kind |-> "empty", provider |-> "groq"]}
=============================================================================
