--------------------------- MODULE ConnectionChain ---------------------------
(***************************************************************************)
(* The connections of src/boost-thread-4.cpp: send_auth() connects and     *)
(* writes a name, receive_auth_response() reads two bytes,                 *)
(* process_server_response() looks at them and stops the processor.  The   *)
(* connection is a unique_ptr that moves from each call into the handler   *)
(* of the operation that the call starts.  main() of the file is empty;    *)
(* here send_auth() is pushed as a task, and start() run by the workers.   *)
(***************************************************************************)
EXTENDS TasksProcessor

CONSTANTS
  Connection,   \* the chains, one connection each
  AuthSize      \* the size of the name, in pieces that one write may send

ResponseSize == 2

Step == {"send_auth", "receive_auth_response", "process_server_response"}

ASSUME ChainAssumption ==
  /\ Connection \X Step \subseteq Task
  /\ AuthSize \in Nat \ {0, ResponseSize}

VARIABLES
  ndebug,    \* whether the build leaves out the asserts
  aborted,   \* whether an assert has ended the process
  exited,    \* whether main() has returned and the io_service is destroyed
  socket,    \* each connection: "none", "open" or "closed"
  size,      \* data.size()
  op,        \* the operation that is pending: "none", "write" or "read"
  buffer,    \* the bytes of data that the operation was given
  result,    \* what the last operation has ended with
  sent,      \* history: whether the server has the whole name
  answer     \* what the server has answered

connection == <<socket, size, op, buffer, result, sent, answer>>
allvars    == <<vars, ndebug, aborted, exited, connection>>

ForAll(value) == [c \in Connection |-> value]

ChainInit ==
  /\ Init /\ ndebug \in BOOLEAN /\ aborted = FALSE /\ exited = FALSE
  /\ socket = ForAll("none") /\ size = ForAll(0)
  /\ op = ForAll("none") /\ buffer = ForAll(0)
  /\ result = ForAll([error |-> "none", bytes |-> 0])
  /\ sent = ForAll(FALSE) /\ answer = ForAll("none")

-----------------------------------------------------------------------------
\* assert(condition): either build goes on if it holds.
Passes(condition) == ndebug \/ condition

\* shutdown() of a connection, and its destructor.
Shutdown(s) == IF s = "open" THEN "closed" ELSE s

\* Faulty: the destructor does not shut the connection down.
DestroyedAsIs(s) == s

Destroyed(s) == Shutdown(s)

\* The process ends inside the task.
AbortIn(w) ==
  /\ at[w] = "task"
  /\ aborted' = TRUE
  /\ UNCHANGED <<vars, ndebug, exited, connection>>

Running(w, c, step) == at[w] = "task" /\ current[w] = <<c, step>>

PushAuth(c) ==
  /\ PushTask(<<c, "send_auth">>)
  /\ UNCHANGED <<ndebug, aborted, exited, connection>>

AtWorker(w) ==
  /\ Start(w) \/ Take(w) \/ Return(w)
  /\ UNCHANGED <<ndebug, aborted, exited, connection>>

\* async_write_data(), async_read_data(): the operation gets the data of the
\* connection, which moves into its handler.
Begin(c, kind, bytes) ==
  /\ op' = [op EXCEPT ![c] = kind]
  /\ size' = [size EXCEPT ![c] = bytes]
  /\ buffer' = [buffer EXCEPT ![c] = bytes]

(* void send_auth(): connect() may throw, and then the connection goes.      *)
SendAuth(w, c) ==
  /\ Running(w, c, "send_auth")
  /\ \/ /\ Finish(w, "returns")
        /\ socket' = [socket EXCEPT ![c] = "open"]
        /\ Begin(c, "write", AuthSize)
     \/ /\ Finish(w, "std::exception")
        /\ socket' = [socket EXCEPT ![c] = "closed"]
        /\ UNCHANGED <<op, size, buffer>>
  /\ UNCHANGED <<ndebug, aborted, exited, result, sent, answer>>

\* An operation ends and its handler is queued.
End(c, kind, step, error, bytes) ==
  /\ op[c] = kind /\ Polled /\ ~stopped
  /\ op' = [op EXCEPT ![c] = "none"]
  /\ result' = [result EXCEPT ![c] = [error |-> error, bytes |-> bytes]]
  /\ Post(<<c, step>>)
  /\ UNCHANGED <<timers, due, since, now, stopped, at, current, started>>
  /\ UNCHANGED <<ndebug, aborted, exited, socket, size, buffer>>

\* async_write() ends when everything is sent or at the first error.
WriteEnds(c) ==
  /\ UNCHANGED answer
  /\ \E n \in 0..AuthSize :
       /\ sent' = [sent EXCEPT ![c] = n = AuthSize]
       /\ End(c, "write", "receive_auth_response",
              IF n = AuthSize THEN "none" ELSE "error", n)

\* Faulty: the handler keeps the connection, which goes with it.
ReadInHandler(w, c) ==
  /\ Finish(w, "returns")
  /\ Begin(c, "read", ResponseSize)
  /\ socket' = [socket EXCEPT ![c] = "closed"]
  /\ UNCHANGED <<ndebug, aborted, exited, result, sent, answer>>

\* async_read_data(std::move(soc), &process_server_response, 2)
ReadResponse(w, c) ==
  /\ Finish(w, "returns")
  /\ Begin(c, "read", ResponseSize)
  /\ UNCHANGED <<ndebug, aborted, exited, socket, result, sent, answer>>

NoError(c) == Passes(result[c].error = "none")

(* void receive_auth_response(connection_ptr &&, const error_code &)         *)
ReceiveAuthResponse(w, c) ==
  /\ Running(w, c, "receive_auth_response")
  /\ IF NoError(c) THEN ReadResponse(w, c) ELSE AbortIn(w)

\* async_read() ends when the buffer is full, with the stream or with an error.
ReadEnds(c) ==
  /\ \/ \E what \in {"OK", "other"} :
          /\ answer' = [answer EXCEPT ![c] = what]
          /\ End(c, "read", "process_server_response", "none", buffer[c])
     \/ \E n \in 0..(buffer[c] - 1), error \in {"eof", "error"} :
          /\ End(c, "read", "process_server_response", error, n)
          /\ UNCHANGED answer
  /\ UNCHANGED sent

\* Faulty: soc->data is not looked at.
Received(c) == Passes(result[c].error \in {"none", "eof"})

\* The three asserts of process_server_response(), after the resize of the
\* wrapper of the handler.
ResponseIsOk(c) ==
  Passes(/\ result[c].error \in {"none", "eof"}
         /\ result[c].bytes = ResponseSize
         /\ answer[c] = "OK")

\* soc->shutdown(); stop(); the wrapper still has the connection and goes.
CloseAndStop(w, c) ==
  /\ StopAndFinish(w)
  /\ size' = [size EXCEPT ![c] = result[c].bytes]
  /\ socket' = [socket EXCEPT ![c] = Shutdown(@)]
  /\ UNCHANGED <<ndebug, aborted, exited, op, buffer, result, sent, answer>>

(* void process_server_response(connection_ptr &&, const error_code &)       *)
ProcessServerResponse(w, c) ==
  /\ Running(w, c, "process_server_response")
  /\ IF ResponseIsOk(c) THEN CloseAndStop(w, c) ELSE AbortIn(w)

\* Every start() has returned and so does main(): the io_service goes, and with
\* it the handlers of what is pending or queued, with their connections.
Exit ==
  /\ ~exited /\ \A w \in Worker : at[w] = "returned"
  /\ exited' = TRUE
  /\ op' = ForAll("none")
  /\ socket' = [c \in Connection |-> Destroyed(socket[c])]
  /\ queue' = <<>>
  /\ UNCHANGED <<timers, due, since, now, stopped, at, current, arrived, started>>
  /\ UNCHANGED <<ndebug, aborted, size, buffer, result, sent, answer>>

-----------------------------------------------------------------------------
WorkerStep(w) ==
  /\ ~aborted
  /\ \/ AtWorker(w)
     \/ \E c \in Connection :
          SendAuth(w, c) \/ ReceiveAuthResponse(w, c) \/ ProcessServerResponse(w, c)

Network(c) == ~aborted /\ (WriteEnds(c) \/ ReadEnds(c))

MainExit == ~aborted /\ Exit

ChainNext ==
  \/ \E c \in Connection : (~aborted /\ ~exited /\ PushAuth(c)) \/ Network(c)
  \/ \E w \in Worker : WorkerStep(w)
  \/ MainExit

\* The workers run, and the server answers, or breaks the connection: nothing
\* in this code gives up on a server that does neither.
ChainSpec ==
  /\ ChainInit /\ [][ChainNext]_allvars
  /\ \A w \in Worker : WF_allvars(WorkerStep(w))
  /\ \A c \in Connection : WF_allvars(Network(c))
  /\ WF_allvars(MainExit)

-----------------------------------------------------------------------------
\* An operation that is pending has its connection to itself: the socket is
\* open and the data is as long as it was when the operation got it, although
\* the call that started it has given the connection away.
PendingIsOwned ==
  \A c \in Connection :
    op[c] # "none" => socket[c] = "open" /\ buffer[c] = size[c]

\* With its asserts the code is stopped only by a connection whose server has
\* the whole name and has answered OK; and it asks for no answer before the
\* name is sent.
StoppedByOk ==
  ~ndebug =>
    /\ stopped => \E c \in Connection : sent[c] /\ answer[c] = "OK" /\ size[c] = 2
    /\ \A c \in Connection : op[c] = "read" => sent[c]

\* No connection is left open: the one that stops the processor closes, and the
\* ones it catches halfway go with the io_service.
ConnectionsClose ==
  \A c \in Connection : socket[c] = "open" ~> socket[c] = "closed" \/ aborted
=============================================================================
