-------------------------- MODULE CompletionBodies --------------------------
(***************************************************************************)
(* How an OpenAI-compatible provider reads the body of a response          *)
(* (llm-router/src/providers/openai.provider.ts).  A body is a sequence of *)
(* the characters that the scan for a JSON object tells apart, or a list   *)
(* of lines of an event stream, each with what its JSON says.              *)
(***************************************************************************)
EXTENDS Integers, Sequences, FiniteSetsExt

Open == "{"
Close == "}"
Quote == "'"       \* a quotation mark
Escape == "/"      \* a backslash
Other == "x"       \* any other character

\* Mutant of Scanned: an escaped character is looked at like any other.
ScannedUnescaped(state, c) ==
  CASE c = Quote -> [state EXCEPT !.inString = ~@]
    [] ~state.inString /\ c = Open -> [state EXCEPT !.depth = @ + 1]
    [] ~state.inString /\ c = Close -> [state EXCEPT !.depth = @ - 1]
    [] OTHER -> state

\* What the scan for the end of an object makes of a character.
Scanned(state, c) ==
  CASE state.inString /\ state.escaped -> [state EXCEPT !.escaped = FALSE]
    [] state.inString /\ ~state.escaped /\ c = Escape -> [state EXCEPT !.escaped = TRUE]
    [] state.inString /\ ~state.escaped /\ c = Quote -> [state EXCEPT !.inString = FALSE]
    [] ~state.inString /\ c = Quote -> [state EXCEPT !.inString = TRUE]
    [] ~state.inString /\ c = Open -> [state EXCEPT !.depth = @ + 1]
    [] ~state.inString /\ c = Close -> [state EXCEPT !.depth = @ - 1]
    [] OTHER -> state

Outside == [depth |-> 0, inString |-> FALSE, escaped |-> FALSE]
None == <<>>

\* The state of the scan after so many characters of a text.
Scans(text) ==
  LET state[i \in 0 .. Len(text)] ==
        IF i = 0 THEN Outside ELSE Scanned(state[i - 1], text[i])
  IN state

\* The brace that brings the depth back to 0 is the end.
Closes(before, c) == ~before.inString /\ c = Close /\ before.depth = 1

\* extractFirstJsonObject: from the first brace on to the one that closes it.
FirstObject(body) ==
  LET starts == {i \in DOMAIN body : body[i] = Open}
      text == SubSeq(body, Min(starts), Len(body))
      ends == {i \in DOMAIN text : Closes(Scans(text)[i - 1], text[i])}
  IN IF starts = {} \/ ends = {} THEN None ELSE SubSeq(text, 1, Min(ends))
-----------------------------------------------------------------------------
(***************************************************************************)
(* A response: an error with its code, or a text and the count of tokens   *)
(* that the provider said or that its length suggests.  A text is a        *)
(* sequence; a chunk says what it carries of [kind, text, usage].  The     *)
(* kind "error" is an error with a message.  An error without one, or one  *)
(* that is a mere string, is a chunk like any other, of the kind "unnamed":*)
(* the code throws only when error.message is there.                       *)
(***************************************************************************)
Fails(code) == [error |-> code]
Estimated == -1
CeilOfFourth(n) == (n + 3) \div 4
ExtractUsage(usage, text) ==
  IF usage # Estimated THEN usage
  ELSE 10 + (IF text = <<>> THEN 1 ELSE CeilOfFourth(Len(text)))

\* parseJsonCompletion.
ParseJsonCompletion(c) ==
  CASE c.kind = "error" -> Fails("PROVIDER_REQUEST_ERROR")
    [] c.kind # "error" /\ c.text = <<>> /\ c.kind = "tool" ->
         Fails("PROVIDER_TOOL_CALL_RESPONSE_UNSUPPORTED")
    [] OTHER -> [text |-> c.text, tokens |-> ExtractUsage(c.usage, c.text)]

\* Mutant of Read: the stream is read past [DONE].
ReadOn(part, line) ==
  CASE ~line.data \/ line.kind \in {"noise", "done"} -> part
    [] line.data /\ line.kind = "error" -> [part EXCEPT !.error = TRUE, !.any = TRUE]
    [] OTHER -> [part EXCEPT !.any = TRUE, !.text = @ \o line.text,
                   !.usage = IF line.usage = Estimated THEN @ ELSE line.usage]

(***************************************************************************)
(* parseEventStream: the lines of data up to [DONE] or up to an error with *)
(* a message, but those that are no JSON.  The last usage that a chunk     *)
(* names counts.                                                           *)
(***************************************************************************)
Passed(part, line) == part.over \/ ~line.data \/ line.kind = "noise"
Read(part, line) ==
  CASE Passed(part, line) -> part
    [] ~Passed(part, line) /\ line.kind = "done" -> [part EXCEPT !.over = TRUE]
    [] ~Passed(part, line) /\ line.kind = "error" ->
         [part EXCEPT !.over = TRUE, !.error = TRUE, !.any = TRUE]
    [] OTHER -> [part EXCEPT
         !.any = TRUE,
         !.text = @ \o line.text,
         !.tool = @ \/ (line.kind = "tool" /\ line.text = <<>>),
         !.usage = IF line.usage = Estimated THEN @ ELSE line.usage]

NothingRead == [over |-> FALSE, error |-> FALSE, any |-> FALSE, tool |-> FALSE,
                text |-> <<>>, usage |-> Estimated]
Parts(lines) ==
  LET part[i \in 0 .. Len(lines)] ==
        IF i = 0 THEN NothingRead ELSE Read(part[i - 1], lines[i])
  IN part

ParseEventStream(lines) ==
  LET part == Parts(lines)[Len(lines)]
  IN CASE part.error -> Fails("PROVIDER_REQUEST_ERROR")
       [] ~part.error /\ ~part.any -> Fails("PROVIDER_RESPONSE_PARSE_ERROR")
       [] ~part.error /\ part.any /\ part.text = <<>> /\ part.tool ->
            Fails("PROVIDER_TOOL_CALL_RESPONSE_UNSUPPORTED")
       [] OTHER -> [text |-> part.text, tokens |-> ExtractUsage(part.usage, part.text)]

(***************************************************************************)
(* parseCompletionBody, of the lines that are not blank: the shape of the  *)
(* body decides, whatever the content type says.  An object at the start   *)
(* counts alone, so that a "data: [DONE]" after it is dropped; then comes  *)
(* an event stream; then an object anywhere.                               *)
(***************************************************************************)
IsObject(line) == ~line.data /\ line.kind # "noise"
ParseCompletionBody(lines) ==
  CASE lines = <<>> -> Fails("PROVIDER_EMPTY_RESPONSE")
    [] lines # <<>> /\ IsObject(Head(lines)) -> ParseJsonCompletion(Head(lines))
    [] lines # <<>> /\ ~IsObject(Head(lines)) ->
         LET data == {i \in DOMAIN lines : lines[i].data}
             objects == {i \in DOMAIN lines : IsObject(lines[i])}
         IN CASE data # {} -> ParseEventStream(lines)
              [] data = {} /\ objects # {} -> ParseJsonCompletion(lines[Min(objects)])
              [] OTHER -> Fails("PROVIDER_RESPONSE_PARSE_ERROR")

\* generate: a request that fails or a status that is no success throws.
Generate(response) ==
  CASE response.kind = "unreachable" -> Fails("PROVIDER_CONNECTION_ERROR")
    [] response.kind = "refused" -> Fails("PROVIDER_REQUEST_ERROR")
    [] response.kind = "ok" -> ParseCompletionBody(response.lines)
=============================================================================
