----------------------------- MODULE SseStreams -----------------------------
(***************************************************************************)
(* Server-Sent Events on the wire (gateway/streaming/sse.ts).  Text is a   *)
(* sequence of pieces: the carriage return and the line feed, the marks    *)
(* that begin a line, and payloads, each a value of its own that is cut no *)
(* further.                                                                *)
(***************************************************************************)
EXTENDS JavaScript, SequencesExt, FiniteSetsExt

CR == [piece |-> "cr"]
LF == [piece |-> "lf"]
DataMark == [piece |-> "data:"]
CommentMark == [piece |-> ":"]
Payload(value) == [piece |-> "payload", value |-> value]

\* The events of SSEEvent: the data of one event is the payloads of its lines.
DataEvent(data) == [type |-> "data", data |-> data]
DoneEvent == [type |-> "done"]
CommentEvent == [type |-> "comment"]

Done == [done |-> TRUE]   \* the payload [DONE]

\* The members of s at the positions to keep, in order.
Selected(s, Keep(_)) == FlattenSeq([i \in DOMAIN s |-> IF Keep(i) THEN <<s[i]>> ELSE <<>>])

\* buffer.replace(/\r\n/g, "\n")
UnixLines(text) ==
    LET Kept(i) == ~(text[i] = CR /\ i < Len(text) /\ text[i + 1] = LF)
    IN  Selected(text, Kept)

EndsWith(text, separator) ==
    /\ Len(text) >= Len(separator)
    /\ SubSeq(text, Len(text) - Len(separator) + 1, Len(text)) = separator

\* One more piece: it may complete the separator that ends the last part.
AddPiece(parts, piece, separator) ==
    LET open == Append(Last(parts), piece)
    IN  IF EndsWith(open, separator)
        THEN Front(parts) \o <<SubSeq(open, 1, Len(open) - Len(separator)), <<>>>>
        ELSE Append(Front(parts), open)

\* text.split(separator), which is also what a loop over indexOf(separator) cuts off.
Split(text, separator) ==
    LET upTo[i \in 0 .. Len(text)] ==
           IF i = 0 THEN <<<<>>>> ELSE AddPiece(upTo[i - 1], text[i], separator)
    IN  upTo[Len(text)]

\* The text cut at every "\n\n", found from the left.
Blocks(text) == Split(text, <<LF, LF>>)

\* block.split("\n"), each line without a final carriage return
LinesOf(block) ==
    LET lines == Split(block, <<LF>>)
        Trimmed(line) == IF line # <<>> /\ Last(line) = CR THEN Front(line) ELSE line
    IN  [i \in DOMAIN lines |-> Trimmed(lines[i])]

\* parseEventBlock(): at most one event.
EventsOf(block) ==
    LET Begins(line, mark) == line # <<>> /\ line[1] = mark
        lines == LinesOf(block)
        data  == FlattenSeq([i \in DOMAIN lines |->
                     IF Begins(lines[i], DataMark) THEN <<Tail(lines[i])>> ELSE <<>>])
    IN  IF data # <<>>
        THEN <<IF data = <<<<Payload(Done)>>>> THEN DoneEvent ELSE DataEvent(data)>>
        ELSE IF \E i \in DOMAIN lines : Begins(lines[i], CommentMark) THEN <<CommentEvent>>
        ELSE <<>>

\* Mutant: carriage returns are taken out of the new text only.
NewTextOnly(buffer, text) ==
    LET blocks == Blocks(buffer \o UnixLines(text))
    IN  [events |-> FlattenSeq([i \in 1 .. Len(blocks) - 1 |-> EventsOf(blocks[i])]),
         buffer |-> Last(blocks)]

\* SSEParser.push(): the events completed by text, and the new buffer.
Push(buffer, text) ==
    LET blocks == Blocks(UnixLines(buffer \o text))
    IN  [events |-> FlattenSeq([i \in 1 .. Len(blocks) - 1 |-> EventsOf(blocks[i])]),
         buffer |-> Last(blocks)]

\* SSEParser.flush(): an event without its blank line.
Flush(buffer) == EventsOf(buffer)

\* serializeEvent(), with the line ends of the sender.
Serialize(event, eol) ==
    LET DataLine(line) == <<DataMark>> \o line \o eol
    IN  CASE event.type = "data" ->
                 FlattenSeq([i \in DOMAIN event.data |-> DataLine(event.data[i])]) \o eol
          [] event.type = "done" -> DataLine(<<Payload(Done)>>) \o eol
          [] event.type = "comment" -> <<CommentMark>> \o eol \o eol
=============================================================================
