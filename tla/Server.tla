------------------------------- MODULE Server -------------------------------
(***************************************************************************)
(* The threads of server.c: main, which starts the server, creates the     *)
(* workers one by one, sleeps until SIGINT, shuts the listening socket     *)
(* down and joins them, and the workers, each of which accepts a client,   *)
(* cuts what it receives into request lines, has every line served and     *)
(* sends the response, until the client closes or the server shuts down.   *)
(* A client writes the bytes of its Script, as many of them and at         *)
(* whatever pace it likes, and may hang up at any point.  The process dies *)
(* of a failure while it starts, of a SIGINT before its handler is there,  *)
(* or of the SIGPIPE of a send to a client that is gone.                   *)
(*                                                                         *)
(* A step is a stretch of code up to the next call that blocks or the next *)
(* read of g_shutdown.  A SIGINT goes to the main thread, as Linux         *)
(* delivers it; signal() makes the calls of the workers restart.           *)
(***************************************************************************)
EXTENDS Integers, Sequences, FiniteSets

CONSTANTS
    Workers, Clients, NoClient,
    Script,         \* the bytes each client writes: the number of the request
                    \* each belongs to, and whether it is the newline that ends it
    BUF_SIZE,
    RecvSize,       \* the size of single_buf, the most one recv returns
    ReplyLen,       \* the bytes of a response
    ServeResults,   \* what skvs_serve may return: -1, 0, 1
    MaxSignals      \* bound of the model: how often SIGINT is sent
ASSUME ServerAssumption ==
    /\ IsFiniteSet(Workers) /\ NoClient \notin Clients
    /\ Script \in [Clients -> Seq([req : Nat, nl : BOOLEAN])]
    /\ \A c \in Clients : \A n \in 1 .. Len(Script[c]) :
          Script[c][n].req = IF n = 1 THEN 1
                             ELSE IF Script[c][n - 1].nl THEN Script[c][n - 1].req + 1
                             ELSE Script[c][n - 1].req
    /\ BUF_SIZE \in Nat /\ RecvSize \in Nat \ {0} /\ ReplyLen \in Nat
    /\ ServeResults \subseteq {-1, 0, 1} /\ MaxSignals \in Nat

VARIABLES
    g_shutdown, signals,    \* the flag, and the SIGINTs so far
    heard,                  \* history: a SIGINT came outside the gap before pause
    main, listening,        \* where main is; sockfd accepts connections
    pc, client,             \* where each worker is; the client it holds
    total_buf, sent,        \* its receive buffer; the bytes of the response sent
    conn,                   \* of each client: "new", "queued", "open" or "closed"
    written, taken, hungup, \* bytes it wrote and the server took; it has hung up
    served, got, broken     \* the lines served, its reply bytes; a send failed
control == <<g_shutdown, signals, heard, main, listening>>
worker  == <<pc, client, total_buf, sent>>
peers   == <<conn, written, taken, hungup, served, got, broken>>
vars    == <<control, worker, peers>>

Init ==
    /\ g_shutdown = FALSE /\ signals = 0 /\ heard = FALSE
    /\ main = "signal" /\ listening = FALSE
    /\ pc = [w \in Workers |-> "none"] /\ client = [w \in Workers |-> NoClient]
    /\ total_buf = [w \in Workers |-> <<>>] /\ sent = [w \in Workers |-> 0]
    /\ conn = [c \in Clients |-> "new"]
    /\ written = [c \in Clients |-> 0] /\ taken = [c \in Clients |-> 0]
    /\ hungup = [c \in Clients |-> FALSE]
    /\ served = [c \in Clients |-> <<>>] /\ got = [c \in Clients |-> 0]
    /\ broken = [c \in Clients |-> FALSE]

----------------------------------------------------------------------------
(* main and the signal.                                                    *)

\* Neither returned from main nor died.
Alive == main \notin {"done", "dead"}
Die   == main' = "dead" /\ UNCHANGED <<g_shutdown, signals, heard, listening, worker, peers>>

\* handle_sigint; pause() returns if main is in it.
Sigint ==
    /\ signals < MaxSignals /\ Alive
    /\ signals' = signals + 1
    /\ IF main = "signal"
         THEN main' = "dead" /\ UNCHANGED <<g_shutdown, heard>>
         ELSE /\ g_shutdown' = TRUE
              /\ heard' = (heard \/ main # "pausing")
              /\ main' = IF main = "pause" THEN "check" ELSE main
    /\ UNCHANGED <<listening, worker, peers>>

\* signal(SIGINT), skvs_init, and socket to listen, one after the other.
StartUp ==
    /\ \/ main = "signal" /\ main' = "init" /\ UNCHANGED listening
       \/ main = "init" /\ main' = "socket" /\ UNCHANGED listening
       \/ main = "socket" /\ main' = "create" /\ listening' = TRUE
    /\ UNCHANGED <<g_shutdown, signals, heard, worker, peers>>

\* The next worker starts running before main goes on.
CreateWorker ==
    /\ main = "create"
    /\ \E w \in Workers : pc[w] = "none" /\ pc' = [pc EXCEPT ![w] = "outer"]
    /\ UNCHANGED <<control, client, total_buf, sent, peers>>

AllCreated ==
    /\ main = "create" /\ \A w \in Workers : pc[w] # "none"
    /\ main' = "check"
    /\ UNCHANGED <<g_shutdown, signals, heard, listening, worker, peers>>

\* A call of the start fails, be it with workers that already run:
\* exit(EXIT_FAILURE).
StartFails == main \in {"signal", "init", "socket", "create"} /\ Die

\* Variant: the flag is not volatile, and the test is made once.
CheckShutdown_Hoisted ==
    /\ main = "check"
    /\ main' = "pausing"
    /\ UNCHANGED <<g_shutdown, signals, heard, listening, worker, peers>>

\* while (!g_shutdown): the test, and then the call of pause.
CheckShutdown ==
    /\ main = "check"
    /\ main' = IF g_shutdown THEN "shutdown" ELSE "pausing"
    /\ UNCHANGED <<g_shutdown, signals, heard, listening, worker, peers>>

Pause ==
    /\ main = "pausing"
    /\ main' = "pause"
    /\ UNCHANGED <<g_shutdown, signals, heard, listening, worker, peers>>

\* Variant: the listening socket is left as it is.
ShutdownSocket_Skipped ==
    /\ main = "shutdown"
    /\ main' = "join"
    /\ UNCHANGED <<g_shutdown, signals, heard, listening, worker, peers>>

\* shutdown(sockfd, SHUT_RDWR); close(sockfd)
ShutdownSocket ==
    /\ main = "shutdown"
    /\ listening' = FALSE
    /\ main' = "join"
    /\ UNCHANGED <<g_shutdown, signals, heard, worker, peers>>

\* pthread_join of every worker, then skvs_destroy and the end of main.
JoinAndDestroy ==
    /\ main = "join"
    /\ \A w \in Workers : pc[w] = "exited"
    /\ main' = "done"
    /\ UNCHANGED <<g_shutdown, signals, heard, listening, worker, peers>>

----------------------------------------------------------------------------
(* The clients.                                                            *)

Connect(c) ==
    /\ conn[c] = "new" /\ listening
    /\ conn' = [conn EXCEPT ![c] = "queued"]
    /\ UNCHANGED <<control, worker, written, taken, hungup, served, got, broken>>

Write(c) ==
    /\ conn[c] = "open" /\ ~hungup[c]
    /\ written[c] < Len(Script[c])
    /\ written' = [written EXCEPT ![c] = @ + 1]
    /\ UNCHANGED <<control, worker, conn, taken, hungup, served, got, broken>>

HangUp(c) ==
    /\ conn[c] # "new" /\ ~hungup[c]
    /\ hungup' = [hungup EXCEPT ![c] = TRUE]
    /\ UNCHANGED <<control, worker, conn, written, taken, served, got, broken>>

----------------------------------------------------------------------------
(* handle_client.                                                          *)

Goto(w, label) == pc' = [pc EXCEPT ![w] = label]

\* while(!g_shutdown)
OuterLoop(w) ==
    /\ pc[w] = "outer"
    /\ Goto(w, IF g_shutdown THEN "exited" ELSE "accept")
    /\ UNCHANGED <<control, client, total_buf, sent, peers>>

Accept(w) ==
    /\ pc[w] = "accept" /\ listening
    /\ \E c \in Clients :
          /\ conn[c] = "queued"
          /\ conn' = [conn EXCEPT ![c] = "open"]
          /\ client' = [client EXCEPT ![w] = c]
    /\ total_buf' = [total_buf EXCEPT ![w] = <<>>]
    /\ Goto(w, "scan")
    /\ UNCHANGED <<control, sent, written, taken, hungup, served, got, broken>>

\* accept fails: because the socket was shut down, or for a passing reason.
AcceptFails(w) ==
    /\ pc[w] = "accept"
    /\ Goto(w, IF g_shutdown THEN "exited" ELSE "outer")
    /\ UNCHANGED <<control, client, total_buf, sent, peers>>

HasLine(w) == \E i \in 1 .. Len(total_buf[w]) : total_buf[w][i].nl
LineLen(w) == CHOOSE i \in 1 .. Len(total_buf[w]) :
                 /\ total_buf[w][i].nl
                 /\ \A j \in 1 .. i - 1 : ~total_buf[w][j].nl

\* The tops of the two loops: is there a line in the buffer?
Scan(w) ==
    /\ pc[w] = "scan"
    /\ Goto(w, IF g_shutdown THEN "close" ELSE IF HasLine(w) THEN "line" ELSE "recv")
    /\ UNCHANGED <<control, client, total_buf, sent, peers>>

\* Variant: the bytes are appended whether or not they fit.
Recv_Unchecked(w) ==
    LET c == client[w]
    IN  /\ pc[w] = "recv"
        /\ \E n \in 1 .. RecvSize :
              /\ taken[c] + n <= written[c]
              /\ taken' = [taken EXCEPT ![c] = @ + n]
              /\ total_buf' = [total_buf EXCEPT ![w] =
                    @ \o SubSeq(Script[c], taken[c] + 1, taken[c] + n)]
        /\ Goto(w, "scan")
        /\ UNCHANGED <<control, client, sent, conn, written, hungup, served, got, broken>>

\* Bytes arrive; too many for the buffer end the connection.
Recv(w) ==
    LET c == client[w]
    IN  /\ pc[w] = "recv"
        /\ \E n \in 1 .. RecvSize :
              /\ taken[c] + n <= written[c]
              /\ taken' = [taken EXCEPT ![c] = @ + n]
              /\ IF Len(total_buf[w]) + n > BUF_SIZE
                   THEN Goto(w, "close") /\ UNCHANGED total_buf
                   ELSE /\ total_buf' = [total_buf EXCEPT ![w] =
                              @ \o SubSeq(Script[c], taken[c] + 1, taken[c] + n)]
                        /\ Goto(w, "scan")
        /\ UNCHANGED <<control, client, sent, conn, written, hungup, served, got, broken>>

\* Variant: the end of the stream is taken for an interrupted call.
RecvEnds_Retried(w) ==
    /\ pc[w] = "recv"
    /\ Goto(w, "scan")
    /\ UNCHANGED <<control, client, total_buf, sent, peers>>

\* recv returns 0, because the client has hung up, or -1, for that or another reason.
RecvEnds(w) ==
    /\ pc[w] = "recv"
    /\ Goto(w, "close")
    /\ UNCHANGED <<control, client, total_buf, sent, peers>>

\* A line is there: stop if the server shuts down or the line is empty, else
\* skvs_serve it.  With the result 0 the line stays in the buffer, and no trace of
\* the call is left.  (The call stores a size_t into response_len, an int: ReplyLen
\* stands for what that leaves there.)
Serve(w) ==
    LET c == client[w]
    IN  /\ pc[w] = "line"
        /\ \/ /\ g_shutdown \/ LineLen(w) = 1
              /\ Goto(w, "close")
              /\ UNCHANGED <<sent, served>>
           \/ /\ ~g_shutdown /\ LineLen(w) # 1
              /\ \E r \in ServeResults :
                    \/ r < 0 /\ Goto(w, "close") /\ UNCHANGED <<sent, served>>
                    \/ r = 0 /\ Goto(w, "scan") /\ UNCHANGED <<sent, served>>
                    \/ /\ r > 0 /\ Goto(w, "send")
                       /\ sent' = [sent EXCEPT ![w] = 0]
                       /\ served' = [served EXCEPT ![c] =
                             Append(@, SubSeq(total_buf[w], 1, LineLen(w)))]
        /\ UNCHANGED <<control, client, total_buf, conn, written, taken, hungup, got, broken>>

\* Variant: a send that took a part of the response is taken for all of it.
SendSome_Once(w) ==
    LET c == client[w]
    IN  /\ pc[w] = "send"
        /\ \E n \in 1 .. ReplyLen - sent[w] :
              /\ sent' = [sent EXCEPT ![w] = ReplyLen]
              /\ got' = [got EXCEPT ![c] = @ + n]
        /\ UNCHANGED <<control, pc, client, total_buf, conn, written, taken, hungup, served, broken>>

SendSome(w) ==
    LET c == client[w]
    IN  /\ pc[w] = "send"
        /\ \E n \in 1 .. ReplyLen - sent[w] :
              /\ sent' = [sent EXCEPT ![w] = @ + n]
              /\ got' = [got EXCEPT ![c] = @ + n]
        /\ UNCHANGED <<control, pc, client, total_buf, conn, written, taken, hungup, served, broken>>

\* send returns -1, or raises SIGPIPE, at its default, if the client is gone.
SendFails(w) ==
    /\ pc[w] = "send" /\ sent[w] < ReplyLen
    /\ \/ /\ broken' = [broken EXCEPT ![client[w]] = TRUE]
          /\ Goto(w, "close")
          /\ UNCHANGED <<control, client, total_buf, sent, conn, written, taken, hungup, served, got>>
       \/ hungup[client[w]] /\ Die

Drop(w, n) == total_buf' = [total_buf EXCEPT ![w] = SubSeq(@, n + 1, Len(@))]

\* Variant: the whole buffer is dropped.
Consume_All(w) ==
    /\ pc[w] = "send" /\ sent[w] = ReplyLen
    /\ Drop(w, Len(total_buf[w]))
    /\ Goto(w, "scan")
    /\ UNCHANGED <<control, client, sent, peers>>

\* The response is out: remove the line from the buffer.
Consume(w) ==
    /\ pc[w] = "send" /\ sent[w] = ReplyLen
    /\ Drop(w, LineLen(w))
    /\ Goto(w, "scan")
    /\ UNCHANGED <<control, client, sent, peers>>

\* Variant: the worker goes on to the next client without close(clientfd).
Close_Skipped(w) ==
    /\ pc[w] = "close"
    /\ client' = [client EXCEPT ![w] = NoClient]
    /\ total_buf' = [total_buf EXCEPT ![w] = <<>>]
    /\ sent' = [sent EXCEPT ![w] = 0]
    /\ Goto(w, "outer")
    /\ UNCHANGED <<control, peers>>

\* close(clientfd); the buffers of the client go out of scope.
Close(w) ==
    /\ pc[w] = "close"
    /\ conn' = [conn EXCEPT ![client[w]] = "closed"]
    /\ client' = [client EXCEPT ![w] = NoClient]
    /\ total_buf' = [total_buf EXCEPT ![w] = <<>>]
    /\ sent' = [sent EXCEPT ![w] = 0]
    /\ Goto(w, "outer")
    /\ UNCHANGED <<control, written, taken, hungup, served, got, broken>>

\* What a worker comes to unless another thread or its client keeps it waiting.
WorkerStep(w) ==
    /\ Alive
    /\ \/ OuterLoop(w) \/ Accept(w) \/ Scan(w) \/ Recv(w) \/ Serve(w)
       \/ SendSome(w) \/ Consume(w) \/ Close(w)
       \/ AcceptFails(w) /\ ~listening
       \/ (RecvEnds(w) \/ SendFails(w)) /\ hungup[client[w]]

\* Failures that may happen at any time.
CallFails(w) == Alive /\ (AcceptFails(w) \/ RecvEnds(w) \/ SendFails(w))

MainStep ==
    \/ StartUp \/ CreateWorker \/ AllCreated
    \/ CheckShutdown \/ Pause \/ ShutdownSocket \/ JoinAndDestroy

Next ==
    \/ Sigint \/ MainStep \/ StartFails
    \/ \E c \in Clients : Alive /\ (Connect(c) \/ Write(c) \/ HangUp(c))
    \/ \E w \in Workers : WorkerStep(w) \/ CallFails(w)

Spec == Init /\ [][Next]_vars

\* Scheduling: threads that can go on do, and accept returns once its socket is
\* shut down.  Nothing is assumed of the clients or of the signal.
Fairness == WF_vars(MainStep) /\ \A w \in Workers : WF_vars(WorkerStep(w))
FairSpec == Spec /\ Fairness

----------------------------------------------------------------------------
(* Properties.                                                             *)

\* Every variable keeps its type; the buffer is never overfull.
TypeOK ==
    /\ g_shutdown \in BOOLEAN /\ signals \in 0 .. MaxSignals /\ heard \in BOOLEAN
    /\ main \in {"signal", "init", "socket", "create", "check", "pausing", "pause",
                "shutdown", "join", "done", "dead"}
    /\ listening \in BOOLEAN
    /\ pc \in [Workers -> {"none", "outer", "accept", "scan", "recv", "line", "send", "close", "exited"}]
    /\ client \in [Workers -> Clients \cup {NoClient}]
    /\ \A w \in Workers : Len(total_buf[w]) <= BUF_SIZE
    /\ sent \in [Workers -> 0 .. ReplyLen]
    /\ conn \in [Clients -> {"new", "queued", "open", "closed"}]
    /\ \A c \in Clients : taken[c] <= written[c] /\ written[c] <= Len(Script[c])

\* However the bytes are cut up on the way, the requests of a client are served
\* whole and in the order it wrote them, each once and none skipped.  (A request is
\* served when skvs_serve has a response for it, at whichever of the calls it takes.)
Positions(c, i) == {n \in 1 .. Len(Script[c]) : Script[c][n].req = i}
ServedInOrder ==
    \A c \in Clients : \A i \in 1 .. Len(served[c]) :
        \E first, last \in 1 .. Len(Script[c]) :
            /\ first .. last = Positions(c, i)
            /\ served[c][i] = SubSeq(Script[c], first, last)

\* A client gets whole responses, one for each request served, also when the
\* server shuts down: it misses a part of one only if the send of it failed.
RepliesWhole ==
    \A c \in Clients :
        (\A w \in Workers : client[w] # c \/ pc[w] # "send") /\ ~broken[c] =>
            got[c] = ReplyLen * Len(served[c])

\* A connection is open exactly while one worker holds it: none is shared and
\* none is left open; and none is held when main has destroyed the store.
OneHolder ==
    \A c \in Clients :
        /\ Cardinality({w \in Workers : client[w] = c}) = IF conn[c] = "open" THEN 1 ELSE 0
        /\ main = "done" => conn[c] # "open"

\* The connection of a client that has hung up gets closed, or dies with the
\* server.  There is one exception.  After the result 0 of skvs_serve the comment
\* in handle_client says "keep receiving from the same client", but the line is
\* still in the buffer, so that it is served again and recv is not called: the
\* worker learns that the client is gone only when the result is another one.
Unanswered(c) == \E w \in Workers : client[w] = c /\ pc[w] = "line" /\ pc'[w] = "scan"
AbandonedIsClosed ==
    \A c \in Clients :
        \/ hungup[c] /\ conn[c] = "open" ~> conn[c] = "closed" \/ main = "dead"
        \/ []<><<Unanswered(c)>>_vars

\* Once main shuts down, the server stops if its clients have hung up: no worker
\* stays in accept, and none waits for another.
StopsWhenClientsLeave ==
    (main = "shutdown" /\ \A c \in Clients : conn[c] = "open" => hungup[c]) ~>
        (~Alive \/ \E c \in Clients : conn[c] = "open" /\ ~hungup[c])

\* A SIGINT starts the shutdown, as the message of its handler says, also one
\* that comes while the workers are being created.  Main sleeps through a SIGINT
\* only if every one so far came between its test of g_shutdown and its pause.
SigintHeard == heard ~> main \in {"join", "done", "dead"}
=============================================================================
