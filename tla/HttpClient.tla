------------------------------ MODULE HttpClient ------------------------------
(***************************************************************************)
(* class client and main() of src/http-client-async-1.cpp: a chain of      *)
(* handlers, each of which starts the next asynchronous operation, that    *)
(* sends one request and prints the headers and the content of the         *)
(* response.  What one read leaves in response_ belongs to the next.       *)
(*                                                                         *)
(* A response is a sequence of pieces: its status line ("200", "other",    *)
(* or "invalid" when it cannot be parsed), lines and blank lines, both     *)
(* with their CRLF, and data without one.                                  *)
(***************************************************************************)
EXTENDS Naturals, SequencesExt

CONSTANT Responses    \* what the server may send before it closes

StatusLine == {"200", "other", "invalid"}
Piece  == {"line", "blank", "data"}

ASSUME ResponseAssumption ==
  \A r \in Responses :
    /\ r \in Seq(StatusLine \cup Piece)
    /\ r # <<>> => Head(r) \in StatusLine /\ Tail(r) \in Seq(Piece)

VARIABLES
  op,          \* the operation outstanding, none when the io_service is out of work
  result,      \* waiting, or how it has completed: ok, eof or error
  response_,   \* the pieces in the streambuf
  wire,        \* the pieces the server has not sent yet
  whole,       \* the whole response
  output,      \* the headers and the content printed
  said         \* the message with which the chain ended early, if it did

httpVars == <<op, result, response_, wire, whole, output, said>>

HttpInit ==
  /\ op = "resolve" /\ result = "waiting"
  /\ response_ = <<>>
  /\ whole \in Responses /\ wire = whole
  /\ output = <<>> /\ said = "nothing"

-----------------------------------------------------------------------------
IsBlank(piece) == piece = "blank"
FirstBlank(s)  == SelectInSeq(s, IsBlank)

\* "\r\n\r\n": a blank line that follows the CRLF of the piece before it.
EndsHeaders(s) ==
  \E i \in 2..Len(s) : s[i] = "blank" /\ s[i-1] \in {"line", "blank"}

\* What the read in progress waits for.
Enough(read, buffer) ==
  CASE read = "status_line" -> buffer # <<>>
    [] read = "headers"     -> EndsHeaders(buffer)
    [] read = "content"     -> buffer # <<>>
    [] OTHER                -> FALSE

Reads == {"status_line", "headers", "content"}

StartNext(operation, buffer) ==
  /\ op' = operation
  /\ response_' = buffer
  /\ result' = IF Enough(operation, buffer) THEN "ok" ELSE "waiting"
  /\ UNCHANGED <<wire, whole>>

\* No further operation is started, and io_service::run() returns.
EndWith(message) ==
  /\ op' = "none" /\ said' = message
  /\ UNCHANGED <<result, response_, wire, whole, output>>

Handles(operation) == op = operation /\ result # "waiting"

Failed == result \in {"eof", "error"}

-----------------------------------------------------------------------------
(* The handlers.  Those of resolve, connect and write have the same shape. *)
HandleSetUp(operation, next) ==
  /\ Handles(operation)
  /\ \/ Failed /\ EndWith("Error")
     \/ ~Failed /\ StartNext(next, response_) /\ UNCHANGED <<output, said>>

HandleResolve      == HandleSetUp("resolve", "connect")
HandleHttpConnect  == HandleSetUp("connect", "write")
HandleWriteRequest == HandleSetUp("write", "status_line")

\* void handle_read_status_line(err): takes the line out of the buffer.
HandleReadStatusLine ==
  /\ Handles("status_line")
  /\ \/ Failed /\ EndWith("Error")
     \/ ~Failed /\ Head(response_) = "invalid" /\ EndWith("Invalid response")
     \/ ~Failed /\ Head(response_) = "other" /\ EndWith("Status code")
     \/ /\ ~Failed /\ Head(response_) = "200"
        /\ StartNext("headers", Tail(response_))
        /\ UNCHANGED <<output, said>>

\* Faulty: what follows the headers in the buffer is not printed.
HeadersOnly(buffer) == SubSeq(buffer, 1, FirstBlank(buffer) - 1)

\* getline() up to the blank line, and then whatever the buffer holds.
HeadersAndContent(buffer) ==
  SubSeq(buffer, 1, FirstBlank(buffer) - 1)
    \o SubSeq(buffer, FirstBlank(buffer) + 1, Len(buffer))

\* void handle_read_headers(err)
HandleReadHeaders ==
  /\ Handles("headers")
  /\ \/ Failed /\ EndWith("Error")
     \/ /\ ~Failed
        /\ output' = HeadersAndContent(response_)
        /\ StartNext("content", <<>>)
        /\ UNCHANGED said

\* Faulty: the next read is not started.
HandleContentOnce ==
  /\ Handles("content")
  /\ \/ result = "eof" /\ EndWith("nothing")
     \/ result = "error" /\ EndWith("Error")
     \/ /\ ~Failed
        /\ op' = "none" /\ output' = output \o response_
        /\ UNCHANGED <<result, response_, wire, whole, said>>

\* Faulty: reads on whatever err says.
HandleContentForEver ==
  /\ Handles("content")
  /\ output' = output \o response_
  /\ StartNext("content", <<>>)
  /\ UNCHANGED said

\* void handle_read_content(err): the end of the stream is no error.
HandleReadContent ==
  /\ Handles("content")
  /\ \/ result = "eof" /\ EndWith("nothing")
     \/ result = "error" /\ EndWith("Error")
     \/ /\ ~Failed
        /\ output' = output \o response_
        /\ StartNext("content", <<>>)
        /\ UNCHANGED said

Handler ==
  \/ HandleResolve \/ HandleHttpConnect \/ HandleWriteRequest
  \/ HandleReadStatusLine \/ HandleReadHeaders \/ HandleReadContent

-----------------------------------------------------------------------------
(* The resolver, the network and the server *)
Completes ==
  /\ op \notin Reads /\ op # "none" /\ result = "waiting"
  /\ result' \in {"ok", "error"}
  /\ UNCHANGED <<op, response_, wire, whole, output, said>>

\* The next n pieces arrive together.
Arrive(n) ==
  /\ op \in Reads /\ result = "waiting"
  /\ LET buffer == response_ \o SubSeq(wire, 1, n)
     IN /\ response_' = buffer
        /\ result' = IF Enough(op, buffer) THEN "ok" ELSE "waiting"
  /\ wire' = SubSeq(wire, n + 1, Len(wire))
  /\ UNCHANGED <<op, whole, output, said>>

\* The server closes after the response, and the connection may break earlier.
Close ==
  /\ op \in Reads /\ result = "waiting"
  /\ \/ wire = <<>> /\ result' = "eof"
     \/ result' = "error"
  /\ UNCHANGED <<op, response_, wire, whole, output, said>>

Network == Completes \/ Close \/ \E n \in 1..Len(wire) : Arrive(n)

Terminated == op = "none" /\ UNCHANGED httpVars

HttpNext == Handler \/ Network \/ Terminated

\* Handlers that are ready run.  The server answers and closes, as the request
\* asks it to ("Connection: close"), or the connection breaks.
Fairness == WF_httpVars(Handler) /\ WF_httpVars(Network)

HttpSpec == HttpInit /\ [][HttpNext]_httpVars /\ Fairness

-----------------------------------------------------------------------------
\* Types, and what a handler parses after a successful read is in the buffer.
HttpTypeOK ==
  /\ op \in Reads \cup {"resolve", "connect", "write", "none"}
  /\ result \in {"waiting", "ok", "eof", "error"}
  /\ \A s \in {response_, wire, whole, output} : s \in Seq(StatusLine \cup Piece)
  /\ said \in {"nothing", "Error", "Invalid response", "Status code"}
  /\ op \in Reads /\ result = "ok" => Enough(op, response_)

\* What is to be printed of a response: nothing unless its status is 200 and its
\* headers end, and then all but the status line and the line that ends them.
ToPrint(response) ==
  IF response # <<>> /\ Head(response) = "200" /\ Contains(response, "blank")
  THEN RemoveFirst(Tail(response), "blank") ELSE <<>>

\* Whatever the chunks in which the response arrives, what has been printed is
\* the beginning of what is to be printed: no piece that one read leaves in the
\* buffer is lost, repeated or printed out of its place.
PrintsInOrder == IsPrefix(output, ToPrint(whole))

\* A chain that ends without a message has printed the whole of the response.
SilentEndIsComplete ==
  op = "none" /\ said = "nothing" => output = ToPrint(whole) /\ wire = <<>>

\* If the server answers and closes, or the connection breaks, the chain ends
\* and io_service::run() returns.
ChainEnds == <>(op = "none")

\* The comment in handle_read_status_line(): the response headers "are
\* terminated by a blank line"; a server that sent one and closed has sent them all.
BlankLineEndsHeaders ==
  op = "headers" /\ result = "eof" => ~Contains(response_, "blank")
=============================================================================
