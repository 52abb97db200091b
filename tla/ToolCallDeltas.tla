--------------------------- MODULE ToolCallDeltas ---------------------------
(***************************************************************************)
(* The normalizers of streamed chunks (gateway/streaming/normalizer.ts,    *)
(* gemini.ts, ollama.ts, passthrough.ts).  A chunk carries text, fragments *)
(* of tool calls and a finish reason.  A fragment names the upstream's own *)
(* call it belongs to, which the code does not see.                        *)
(***************************************************************************)
EXTENDS JavaScript, SequencesExt

Fragment(call, index, name, args) ==
    [call |-> call, index |-> index, name |-> name, args |-> args, hoisted |-> FALSE]

Chunk(text, calls, finish) ==
    [json |-> TRUE, text |-> text, calls |-> calls, finish |-> finish]

\* The state of every normalizer: Gemini's nameToIndex and nextIndex,
\* Ollama's lastIndex and seenToolCall.
NewNormalizer == [names |-> <<>>, nextIndex |-> 0, lastIndex |-> 0, seen |-> FALSE]

\* Mutant: a fragment without a name opens a call of its own.
GeminiMinting(n, tc, positional) ==
    IF tc.index # None THEN [index |-> tc.index, state |-> n]
    ELSE IF tc.name # None /\ \E k \in DOMAIN n.names : n.names[k] = tc.name
    THEN [index |-> (CHOOSE k \in DOMAIN n.names : n.names[k] = tc.name) - 1, state |-> n]
    ELSE [index |-> n.nextIndex,
          state |-> [n EXCEPT !.nextIndex = @ + 1, !.names = Append(@, tc.name)]]

\* indexForToolCall(): nameToIndex[names[i]] = i - 1.
GeminiIndex(n, tc, positional) ==
    IF tc.index # None THEN [index |-> tc.index, state |-> n]
    ELSE IF tc.name = None
    THEN [index |-> IF n.nextIndex > 0 THEN n.nextIndex - 1 ELSE positional, state |-> n]
    ELSE IF \E k \in DOMAIN n.names : n.names[k] = tc.name
    THEN [index |-> (CHOOSE k \in DOMAIN n.names : n.names[k] = tc.name) - 1, state |-> n]
    ELSE [index |-> n.nextIndex,
          state |-> [n EXCEPT !.nextIndex = @ + 1, !.names = Append(@, tc.name)]]

\* fixToolCall(), the index.
OllamaIndex(n, tc, positional) ==
    LET index == IF tc.index # None THEN tc.index
                 ELSE IF n.seen THEN n.lastIndex ELSE positional
    IN  [index |-> index, state |-> [n EXCEPT !.seen = TRUE, !.lastIndex = index]]

\* fixToolCall(), the arguments: those outside the function object are moved in.
Hoisted(tc) == [tc EXCEPT !.hoisted = FALSE]

\* createNormalizer(): one fragment, the i-th of its chunk.
Fix(provider, n, tc, i) ==
    CASE provider = "gemini" -> LET at == GeminiIndex(n, tc, i - 1)
                                IN  [tc |-> [tc EXCEPT !.index = at.index], state |-> at.state]
      [] provider = "ollama" -> LET at == OllamaIndex(n, tc, i - 1)
                                IN  [tc |-> [Hoisted(tc) EXCEPT !.index = at.index],
                                     state |-> at.state]
      [] OTHER -> [tc |-> tc, state |-> n]

\* One fragment after those of its chunk that are fixed.
FixNext(provider, acc, tc) ==
    LET fixed == Fix(provider, acc.state, tc, Len(acc.calls) + 1)
    IN  [calls |-> Append(acc.calls, fixed.tc), state |-> fixed.state]

\* The fragments of a chunk in turn, each from the state the last left.
FixAll(provider, n, calls) ==
    LET after[i \in 0 .. Len(calls)] ==
           IF i = 0 THEN [calls |-> <<>>, state |-> n] ELSE FixNext(provider, after[i - 1], calls[i])
    IN  after[Len(calls)]

\* transform()
Transform(provider, n, chunk) ==
    LET all == FixAll(provider, n, chunk.calls)
    IN  [chunk |-> [chunk EXCEPT !.calls = all.calls], state |-> all.state]

\* How an OpenAI client puts a stream together: text in order, the fragments
\* of a tool call by their index, the last finish reason.
Assembled(chunks) ==
    LET Named(f) == f.name # None
        Ending(c) == c.finish # None
        fragments == FlattenSeq([i \in DOMAIN chunks |-> chunks[i].calls])
        Of(index) == LET At(f) == f.index = index IN SelectSeq(fragments, At)
        named(index) == SelectSeq(Of(index), Named)
        endings == SelectSeq(chunks, Ending)
    IN  [text   |-> FlattenSeq([i \in DOMAIN chunks |-> chunks[i].text]),
         calls  |-> [index \in {fragments[i].index : i \in DOMAIN fragments} |->
                       [call |-> Of(index)[1].call,
                        name |-> IF named(index) = <<>> THEN None ELSE named(index)[1].name,
                        args |-> FlattenSeq([i \in DOMAIN Of(index) |-> Of(index)[i].args])]],
         finish |-> IF endings = <<>> THEN None ELSE Last(endings).finish]
-----------------------------------------------------------------------------
\* How the upstreams stream tool calls (external): the fragments of a stream in turn.

IsFragment(f) ==
    /\ f = [call |-> f.call, index |-> f.index, name |-> f.name, args |-> f.args,
            hoisted |-> f.hoisted]
    /\ f.index \in Int \cup {None} /\ f.hoisted \in BOOLEAN

\* Two fragments have one number exactly if they belong to one call.
Agree(f, g) == f.call = g.call <=> f.index = g.index

\* As OpenAI specifies it: every fragment has its call's index.
Numbered(calls) ==
    /\ \A i \in DOMAIN calls : calls[i].index # None /\ ~calls[i].hoisted
    /\ \A i, j \in DOMAIN calls : Agree(calls[i], calls[j])

\* The k-th fragment is the first with its name.
BeginsCall(calls, k) ==
    calls[k].name # None /\ \A j \in 1 .. k - 1 : calls[j].name # calls[k].name

\* Gemini: no index; a call begins with its name, and fragments without a name
\* continue the call that began last.
ByName(calls) ==
    /\ \A i \in DOMAIN calls : calls[i].index = None /\ ~calls[i].hoisted
    /\ \A i, j \in DOMAIN calls :
          calls[i].name # None /\ calls[j].name # None =>
             (calls[i].call = calls[j].call <=> calls[i].name = calls[j].name)
    /\ \A i \in DOMAIN calls :
          calls[i].name = None =>
             \E k \in 1 .. i - 1 : /\ BeginsCall(calls, k) /\ calls[k].call = calls[i].call
                                   /\ \A j \in k + 1 .. i - 1 : ~BeginsCall(calls, j)

\* Ollama: one call without an index,
Alone(calls) == \A i \in DOMAIN calls : calls[i].index = None /\ calls[i].call = calls[1].call

\* or fragments that have their call's index or continue the call of the one before.
Continued(calls) ==
    /\ \A i \in DOMAIN calls :
          calls[i].index = None => i > 1 /\ calls[i].call = calls[i - 1].call
    /\ \A i, j \in DOMAIN calls :
          calls[i].index # None /\ calls[j].index # None => Agree(calls[i], calls[j])

StreamsCalls(provider, calls) ==
    CASE provider = "gemini" -> Numbered(calls) \/ ByName(calls)
      [] provider = "ollama" -> Alone(calls) \/ Continued(calls)
      [] OTHER -> Numbered(calls)
=============================================================================
