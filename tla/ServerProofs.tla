---------------------------- MODULE ServerProofs ----------------------------
(***************************************************************************)
(* Proofs about Server, for every number of workers and clients, whatever  *)
(* the clients write and however it is cut up, every size of the buffers   *)
(* and every result of skvs_serve.                                         *)
(***************************************************************************)
EXTENDS Server, LeastElements, SequenceTheorems, FiniteSetTheorems, TLAPS

Bytes == [req : Nat, nl : BOOLEAN]

\* The places of a worker without a client, and those where its buffer counts.
Free == {"none", "outer", "accept", "exited"}
Busy == {"scan", "recv", "line", "send"}

(* The inductive invariant, in named parts.                                *)

TypedMain ==
    /\ g_shutdown \in BOOLEAN /\ signals \in 0 .. MaxSignals /\ heard \in BOOLEAN
    /\ main \in {"signal", "init", "socket", "create", "check", "pausing", "pause",
                "shutdown", "join", "done", "dead"}
    /\ listening \in BOOLEAN

TypedWorkers ==
    /\ pc \in [Workers -> Free \cup Busy \cup {"close"}]
    /\ client \in [Workers -> Clients \cup {NoClient}]
    /\ total_buf \in [Workers -> Seq(Bytes)]
    /\ \A w \in Workers : Len(total_buf[w]) <= BUF_SIZE
    /\ sent \in [Workers -> 0 .. ReplyLen]

TypedPeers ==
    /\ conn \in [Clients -> {"new", "queued", "open", "closed"}]
    /\ written \in [Clients -> Nat] /\ taken \in [Clients -> Nat]
    /\ \A c \in Clients : taken[c] <= written[c] /\ written[c] <= Len(Script[c])
    /\ hungup \in [Clients -> BOOLEAN] /\ broken \in [Clients -> BOOLEAN]
    /\ served \in [Clients -> Seq(Seq(Bytes))] /\ got \in [Clients -> Nat]

Typed == TypedMain /\ TypedWorkers /\ TypedPeers

\* A worker holds a client exactly in its loop over that client's requests; the
\* connection is open then, and held by no other worker.
Holding ==
    /\ \A w \in Workers : client[w] = NoClient <=> pc[w] \in Free
    /\ \A w \in Workers : client[w] # NoClient => conn[client[w]] = "open"
    /\ \A v, w \in Workers : client[v] = client[w] /\ client[v] # NoClient => v = w
    /\ \A c \in Clients : conn[c] = "open" => \E w \in Workers : client[w] = c

\* main returns after the last worker has.
Joined == main = "done" => \A w \in Workers : pc[w] = "exited"

\* The bytes of the responses: all of those but the one that is being sent, and
\* of that one what send has taken.
Replied ==
    /\ \A w \in Workers : pc[w] = "send" =>
          /\ served[client[w]] # <<>>
          /\ ~broken[client[w]] =>
                got[client[w]] = ReplyLen * (Len(served[client[w]]) - 1) + sent[w]
    /\ \A c \in Clients : ~broken[c] /\ (\A w \in Workers : client[w] # c \/ pc[w] # "send") =>
          got[c] = ReplyLen * Len(served[c])

\* The k-th request ends with byte n of what c writes; there is no byte 0.
EndsAt(c, n, k) == IF n = 0 THEN k = 0 ELSE Script[c][n].nl /\ Script[c][n].req = k

\* The bytes of w's client that have left w's buffer, and the requests among them.
Gone(w)     == taken[client[w]] - Len(total_buf[w])
Answered(w) == Len(served[client[w]]) - (IF pc[w] = "send" THEN 1 ELSE 0)

\* The buffer has the bytes from the end of a request on up to the last one taken,
\* and that request is the last one answered.
Cut(w) ==
    /\ Gone(w) \in Nat
    /\ \A i \in 1 .. Len(total_buf[w]) : total_buf[w][i] = Script[client[w]][Gone(w) + i]
    /\ EndsAt(client[w], Gone(w), Answered(w))
    /\ pc[w] \in {"line", "send"} => HasLine(w)
Untouched == \A c \in Clients : conn[c] \in {"new", "queued"} => taken[c] = 0 /\ served[c] = <<>>
InStep == Untouched /\ \A w \in Workers : pc[w] \in Busy => Cut(w)

IInv == Typed /\ Holding /\ Joined /\ Replied /\ InStep /\ ServedInOrder

----------------------------------------------------------------------------
(* The steps, sorted by what they leave alone.                             *)

\* What main, the signal and a dying process do leaves the workers alone.
Quiet == UNCHANGED <<worker, peers>>

LEMMA StepsOfNext ==
    ASSUME [Next]_vars
    PROVE  \/ Quiet
           \/ CreateWorker
           \/ \E c \in Clients : Connect(c) \/ Write(c) \/ HangUp(c)
           \/ \E w \in Workers : \/ OuterLoop(w) \/ Accept(w) \/ AcceptFails(w) \/ Scan(w)
                                 \/ Recv(w) \/ RecvEnds(w) \/ Serve(w) \/ SendSome(w)
                                 \/ (SendFails(w) /\ main' # "dead") \/ Consume(w) \/ Close(w)
BY DEF Next, Quiet, vars, MainStep, WorkerStep, CallFails, Sigint, StartUp, AllCreated, StartFails,
       Die, CheckShutdown, Pause, ShutdownSocket, JoinAndDestroy, SendFails, Alive, control

\* The sizes are naturals.
LEMMA Sizes ==
    /\ BUF_SIZE \in Nat /\ RecvSize \in Nat \ {0} /\ ReplyLen \in Nat /\ MaxSignals \in Nat
    /\ NoClient \notin Clients
BY ServerAssumption

\* What a client writes is a sequence of bytes.
LEMMA Scripts ==
    ASSUME NEW c \in Clients
    PROVE  /\ Script[c] \in Seq(Bytes) /\ Len(Script[c]) \in Nat
           /\ \A n \in 1 .. Len(Script[c]) : Script[c][n] \in Bytes
<1>1. Script[c] \in Seq(Bytes)
  BY ServerAssumption DEF Bytes
<1>2. \A n \in 1 .. Len(Script[c]) : Script[c][n] \in Bytes
  BY <1>1, ElementOfSeq, Zenon
<1>3. Len(Script[c]) \in Nat
  BY <1>1, LenProperties, Zenon
<1> QED
  BY <1>1, <1>2, <1>3

\* Initially nothing is held, taken or served.
LEMMA Initially == Init => IInv
<1> SUFFICES ASSUME Init PROVE IInv
  OBVIOUS
<1> USE DEF Init
<1>1. TypedMain
  <2>1. g_shutdown \in BOOLEAN /\ heard \in BOOLEAN /\ listening \in BOOLEAN
    BY Zenon
  <2>2. signals \in 0 .. MaxSignals
    BY Sizes
  <2> QED
    BY <2>1, <2>2 DEF TypedMain
<1>2. TypedWorkers
  <2>1. <<>> \in Seq(Bytes) /\ Len(<<>>) = 0
    BY EmptySeq, Zenon
  <2> QED
    BY <2>1, Sizes DEF TypedWorkers, Free
<1>3. TypedPeers
  <2>1. <<>> \in Seq(Seq(Bytes))
    BY EmptySeq, Zenon
  <2> QED
    BY <2>1, Scripts DEF TypedPeers
<1>4. Holding /\ Joined
  BY DEF Holding, Joined, Free
<1>5. Replied /\ InStep
  BY Sizes DEF Replied, InStep, Untouched, Busy
<1>6. ServedInOrder
  BY DEF ServedInOrder
<1> QED
  BY <1>1, <1>2, <1>3, <1>4, <1>5, <1>6 DEF IInv, Typed

\* A worker that is not between two clients has one, whose connection is open.
LEMMA HasClient ==
    ASSUME TypedWorkers, Holding, NEW w \in Workers, pc[w] \notin Free
    PROVE  client[w] \in Clients /\ conn[client[w]] = "open"
BY DEF TypedWorkers, Holding

----------------------------------------------------------------------------
(* What the steps do to a buffer.                                          *)

\* The first newline of a buffer that has one: memchr finds it.
LEMMA FirstLine ==
    ASSUME TypedWorkers, NEW w \in Workers, HasLine(w)
    PROVE  /\ LineLen(w) \in 1 .. Len(total_buf[w])
           /\ total_buf[w][LineLen(w)].nl
           /\ \A j \in 1 .. LineLen(w) - 1 : ~total_buf[w][j].nl
<1> DEFINE S == {i \in 1 .. Len(total_buf[w]) : total_buf[w][i].nl}
<1>1. Len(total_buf[w]) \in Nat
  BY LenProperties, Zenon DEF TypedWorkers
<1>2. S \in SUBSET Nat /\ S # {}
  BY <1>1 DEF HasLine
<1>3. PICK x \in S : \A y \in S : x <= y
  BY <1>2, LeastElement
<1>4. \A j \in 1 .. x - 1 : ~total_buf[w][j].nl
  <2> SUFFICES ASSUME NEW j \in 1 .. x - 1, total_buf[w][j].nl PROVE FALSE
    OBVIOUS
  <2>1. j \in S /\ j < x
    BY <1>1
  <2> QED
    BY <2>1, <1>3, <1>1
<1>5. x \in 1 .. Len(total_buf[w]) /\ total_buf[w][x].nl
  OBVIOUS
<1> HIDE DEF S
<1> QED
  BY <1>4, <1>5 DEF LineLen

\* What recv does: it takes the next n bytes of its client, and the buffer ends
\* with those unless they do not fit.
LEMMA RecvCases ==
    ASSUME Typed, Holding, NEW w \in Workers, Recv(w)
    PROVE  LET c == client[w] IN
           /\ pc[w] = "recv" /\ c \in Clients
           /\ UNCHANGED <<control, client, sent, conn, written, hungup, served, got, broken>>
           /\ \E n \in Nat \ {0} :
                 /\ taken[c] + n <= written[c]
                 /\ taken' = [taken EXCEPT ![c] = @ + n]
                 /\ \/ Goto(w, "close") /\ UNCHANGED total_buf
                    \/ \E more \in Seq(Bytes) :
                          /\ Goto(w, "scan") /\ total_buf' = [total_buf EXCEPT ![w] = more]
                          /\ Len(more) = Len(total_buf[w]) + n /\ Len(more) <= BUF_SIZE
                          /\ \A i \in 1 .. Len(total_buf[w]) : more[i] = total_buf[w][i]
                          /\ \A i \in 1 .. n : more[Len(total_buf[w]) + i] = Script[c][taken[c] + i]
<1>1. PICK c : c = client[w]
  OBVIOUS
<1>2. pc[w] = "recv" /\ c \in Clients
  BY <1>1, HasClient DEF Recv, Typed, Free
<1>3. PICK buf \in Seq(Bytes) : buf = total_buf[w]
  BY DEF Typed, TypedWorkers
<1>4. PICK s \in Seq(Bytes) : s = Script[c]
  BY <1>2, Scripts
<1>5. PICK a \in Nat : a = taken[c]
  BY <1>2 DEF Typed, TypedPeers
<1>6. PICK n \in Nat \ {0} :
         /\ a + n <= written[c]
         /\ taken' = [taken EXCEPT ![c] = @ + n]
         /\ IF Len(buf) + n > BUF_SIZE
              THEN Goto(w, "close") /\ UNCHANGED total_buf
              ELSE /\ total_buf' = [total_buf EXCEPT ![w] =
                          @ \o SubSeq(s, a + 1, a + n)]
                   /\ Goto(w, "scan")
  <2>1. \A n \in 1 .. RecvSize : n \in Nat \ {0}
    BY Sizes
  <2> QED
    BY <2>1, <1>1, <1>3, <1>4, <1>5 DEF Recv
<1>7. written[c] \in Nat /\ a + n <= Len(s)
  BY <1>2, <1>4, <1>6, Scripts DEF Typed, TypedPeers
<1>8. PICK new : new = SubSeq(s, a + 1, a + n)
  OBVIOUS
<1>9. PICK more : more = buf \o new
  OBVIOUS
<1>10. /\ Len(buf) \in Nat /\ Len(s) \in Nat
       /\ \A i \in a + 1 .. a + n : s[i] \in Bytes
  BY <1>7, LenProperties, ElementOfSeq
<1>11. new \in Seq(Bytes) /\ Len(new) = n /\ \A i \in 1 .. n : new[i] = s[a + i]
  <2>1. (a + n) - (a + 1) + 1 = n /\ a + 1 <= a + n /\ \A i \in 1 .. n : (a + 1) + i - 1 = a + i
    OBVIOUS
  <2> QED
    BY <1>8, <1>10, <2>1, SubSeqProperties
<1>12. /\ more \in Seq(Bytes) /\ Len(more) = Len(buf) + n
       /\ \A i \in 1 .. Len(buf) + n : more[i] = IF i <= Len(buf) THEN buf[i] ELSE new[i - Len(buf)]
  BY <1>9, <1>10, <1>11, ConcatProperties
<1>13. \A i \in 1 .. n : more[Len(buf) + i] = s[a + i]
  <2> SUFFICES ASSUME NEW i \in 1 .. n PROVE more[Len(buf) + i] = new[i]
    BY <1>11
  <2>1. /\ Len(buf) + i \in 1 .. Len(buf) + n /\ ~(Len(buf) + i <= Len(buf))
        /\ (Len(buf) + i) - Len(buf) = i
    BY <1>10
  <2> QED
    BY <2>1, <1>12
<1>14. \A i \in 1 .. Len(buf) : more[i] = buf[i]
  BY <1>10, <1>12
<1>15. UNCHANGED <<control, client, sent, conn, written, hungup, served, got, broken>>
  BY DEF Recv
<1>16. CASE Len(buf) + n > BUF_SIZE
  BY <1>1, <1>2, <1>5, <1>6, <1>15, <1>16
<1>17. CASE ~(Len(buf) + n > BUF_SIZE)
  <2>1. Len(more) <= BUF_SIZE
    BY <1>10, <1>12, <1>17, Sizes
  <2>2. Goto(w, "scan") /\ total_buf' = [total_buf EXCEPT ![w] = more]
    BY <1>3, <1>6, <1>8, <1>9, <1>17
  <2>3. \A i \in 1 .. Len(total_buf[w]) : more[i] = total_buf[w][i]
    BY <1>3, <1>14
  <2>4. \A i \in 1 .. n : more[Len(total_buf[w]) + i] = Script[c][taken[c] + i]
    BY <1>3, <1>4, <1>5, <1>13
  <2>5. more \in Seq(Bytes) /\ Len(more) = Len(total_buf[w]) + n
    BY <1>3, <1>12
  <2>6. taken[c] + n <= written[c] /\ taken' = [taken EXCEPT ![c] = @ + n]
    BY <1>5, <1>6
  <2> QED
    BY <1>1, <1>2, <1>15, <2>1, <2>2, <2>3, <2>4, <2>5, <2>6, Zenon
<1> QED
  BY <1>16, <1>17

\* memmove: the first k bytes leave the buffer.
LEMMA Dropped ==
    ASSUME NEW buf \in Seq(Bytes), NEW k \in 0 .. Len(buf)
    PROVE  LET rest == SubSeq(buf, k + 1, Len(buf))
           IN  /\ rest \in Seq(Bytes)
               /\ Len(rest) = Len(buf) - k
               /\ \A i \in 1 .. Len(buf) - k : rest[i] = buf[k + i]
<1>1. Len(buf) \in Nat
  BY LenProperties, Zenon
<1>2. \A i \in k + 1 .. Len(buf) : buf[i] \in Bytes
  BY <1>1, ElementOfSeq
<1> QED
  BY <1>1, <1>2, SubSeqProperties

\* The line that is served, cut off the buffer.
LEMMA LineType ==
    ASSUME TypedWorkers, NEW w \in Workers, HasLine(w)
    PROVE  LET line == SubSeq(total_buf[w], 1, LineLen(w))
           IN  /\ line \in Seq(Bytes) /\ Len(line) = LineLen(w)
               /\ \A i \in 1 .. LineLen(w) : line[i] = total_buf[w][i]
<1>1. LineLen(w) \in 1 .. Len(total_buf[w])
  BY FirstLine
<1>2. total_buf[w] \in Seq(Bytes) /\ Len(total_buf[w]) \in Nat
  BY LenProperties, Zenon DEF TypedWorkers
<1>3. \A i \in 1 .. LineLen(w) : total_buf[w][i] \in Bytes
  BY <1>1, <1>2, ElementOfSeq
<1> QED
  BY <1>1, <1>2, <1>3, SubSeqProperties

\* The outcomes of skvs_serve: the worker gives up, leaves the line as it is, or
\* has a response to send.
LEMMA ServeCases ==
    ASSUME NEW w \in Workers, Serve(w)
    PROVE  /\ pc[w] = "line"
           /\ \/ /\ Goto(w, "close") \/ Goto(w, "scan")
                 /\ UNCHANGED <<sent, served>>
              \/ /\ Goto(w, "send")
                 /\ sent' = [sent EXCEPT ![w] = 0]
                 /\ served' = [served EXCEPT ![client[w]] =
                                  Append(@, SubSeq(total_buf[w], 1, LineLen(w)))]
           /\ UNCHANGED <<control, client, total_buf, conn, written, taken, hungup, got, broken>>
BY DEF Serve

----------------------------------------------------------------------------
(* Types.                                                                  *)

LEMMA TypedMainKept == TypedMain /\ [Next]_vars => TypedMain'
<1> SUFFICES ASSUME TypedMain, [Next]_vars PROVE TypedMain'
  OBVIOUS
<1> USE DEF TypedMain
<1>1. CASE Sigint
  <2>1. g_shutdown' \in BOOLEAN /\ heard' \in BOOLEAN /\ UNCHANGED listening
    BY <1>1, Zenon DEF Sigint
  <2>2. signals' \in 0 .. MaxSignals
    BY <1>1, Sizes DEF Sigint
  <2>3. main' \in {main, "dead", "check"}
    BY <1>1 DEF Sigint
  <2> QED
    BY <2>1, <2>2, <2>3
<1>2. CASE UNCHANGED control
  BY <1>2 DEF control
<1>3. CASE MainStep \/ Die
  BY <1>3 DEF MainStep, Die, StartUp, CreateWorker, AllCreated, CheckShutdown, Pause,
              ShutdownSocket, JoinAndDestroy, control
<1> QED
  BY <1>1, <1>2, <1>3
     DEF Next, vars, StartFails, WorkerStep, CallFails, Connect, Write, HangUp, OuterLoop, Accept,
         AcceptFails, Scan, Recv, RecvEnds, Serve, SendSome, SendFails, Consume, Close

LEMMA TypedWorkersKept == Typed /\ Holding /\ InStep /\ [Next]_vars => TypedWorkers'
<1> SUFFICES ASSUME Typed, Holding, InStep, [Next]_vars PROVE TypedWorkers'
  OBVIOUS
<1> USE DEF Typed, TypedWorkers, TypedPeers, Goto, Free, Busy
<1>1. CASE UNCHANGED worker
  BY <1>1 DEF worker
<1>2. CASE CreateWorker
  BY <1>2 DEF CreateWorker
<1>3. ASSUME NEW w \in Workers, OuterLoop(w) \/ AcceptFails(w) \/ Scan(w) \/ RecvEnds(w)
      PROVE  TypedWorkers'
  BY <1>3 DEF OuterLoop, AcceptFails, Scan, RecvEnds
<1>4. ASSUME NEW w \in Workers, Accept(w) PROVE TypedWorkers'
  BY <1>4, Sizes, EmptySeq DEF Accept
<1>5. ASSUME NEW w \in Workers, Recv(w) PROVE TypedWorkers'
  <2>1. UNCHANGED <<client, sent>>
    BY <1>5, RecvCases
  <2>2. \E label \in {"close", "scan"} : pc' = [pc EXCEPT ![w] = label]
    BY <1>5, RecvCases
  <2>3. \/ UNCHANGED total_buf
        \/ \E more \in Seq(Bytes) : /\ total_buf' = [total_buf EXCEPT ![w] = more]
                                    /\ Len(more) <= BUF_SIZE
    BY <1>5, RecvCases
  <2> QED
    BY <2>1, <2>2, <2>3
<1>6. ASSUME NEW w \in Workers, Serve(w) PROVE TypedWorkers'
  <2>1. pc[w] = "line" /\ UNCHANGED <<client, total_buf>>
    BY <1>6, ServeCases
  <2>2. \E label \in {"close", "scan", "send"} : pc' = [pc EXCEPT ![w] = label]
    BY <1>6, ServeCases
  <2>3. UNCHANGED sent \/ sent' = [sent EXCEPT ![w] = 0]
    BY <1>6, ServeCases
  <2> QED
    <3>1. pc' \in [Workers -> Free \cup Busy \cup {"close"}]
      BY <2>2
    <3>2. sent' \in [Workers -> 0 .. ReplyLen]
      <4>1. sent \in [Workers -> 0 .. ReplyLen] /\ 0 \in 0 .. ReplyLen
        BY Sizes
      <4> HIDE DEF Typed, TypedWorkers
      <4> QED
        BY <4>1, <2>3
    <3> QED
      BY <2>1, <3>1, <3>2
<1>7. ASSUME NEW w \in Workers, SendSome(w) PROVE TypedWorkers'
  BY <1>7, Sizes DEF SendSome
<1>8. ASSUME NEW w \in Workers, SendFails(w), main' # "dead" PROVE TypedWorkers'
  BY <1>8 DEF SendFails, Die
<1>9. ASSUME NEW w \in Workers, Consume(w), HasLine(w) PROVE TypedWorkers'
  <2> DEFINE rest == SubSeq(total_buf[w], LineLen(w) + 1, Len(total_buf[w]))
  <2>1. LineLen(w) \in 1 .. Len(total_buf[w])
    BY <1>9, FirstLine
  <2>2. total_buf[w] \in Seq(Bytes) /\ Len(total_buf[w]) \in Nat
    BY LenProperties, Zenon
  <2>3. rest \in Seq(Bytes) /\ Len(rest) = Len(total_buf[w]) - LineLen(w)
    BY <2>1, <2>2, Dropped
  <2>4. total_buf' = [total_buf EXCEPT ![w] = rest] /\ Goto(w, "scan") /\ UNCHANGED <<client, sent>>
    BY <1>9 DEF Consume, Drop
  <2>5. Len(rest) <= BUF_SIZE
    BY <2>1, <2>2, <2>3, Sizes
  <2> HIDE DEF rest
  <2> QED
    BY <2>3, <2>4, <2>5
<1>10. ASSUME NEW w \in Workers, Close(w) PROVE TypedWorkers'
  BY <1>10, Sizes, EmptySeq DEF Close
<1>11. ASSUME NEW c \in Clients, Connect(c) \/ Write(c) \/ HangUp(c) PROVE UNCHANGED worker
  BY <1>11 DEF Connect, Write, HangUp
<1>12. ASSUME NEW w \in Workers, Consume(w) PROVE HasLine(w)
  BY <1>12 DEF Consume, InStep, Cut
<1> QED
  BY <1>1, <1>2, <1>3, <1>4, <1>5, <1>6, <1>7, <1>8, <1>9, <1>10, <1>11, <1>12, StepsOfNext DEF Quiet

LEMMA TypedPeersKept == Typed /\ Holding /\ InStep /\ [Next]_vars => TypedPeers'
<1> SUFFICES ASSUME Typed, Holding, InStep, [Next]_vars PROVE TypedPeers'
  OBVIOUS
<1> USE DEF TypedPeers
<1>a. TypedPeers /\ TypedWorkers
  BY DEF Typed
<1>1. CASE UNCHANGED peers
  BY <1>1, <1>a DEF peers
<1>2. ASSUME NEW c \in Clients, Connect(c) \/ Write(c) \/ HangUp(c) PROVE TypedPeers'
  <2>1. CASE Connect(c)
    BY <1>a, <2>1 DEF Connect
  <2>2. CASE Write(c)
    BY <1>a, <2>2, Scripts DEF Write
  <2>3. CASE HangUp(c)
    BY <1>a, <2>3 DEF HangUp
  <2> QED
    BY <1>2, <2>1, <2>2, <2>3
<1>3. ASSUME NEW w \in Workers, Accept(w) PROVE TypedPeers'
  BY <1>3, <1>a DEF Accept
<1>4. ASSUME NEW w \in Workers, Recv(w) PROVE TypedPeers'
  <2>1. UNCHANGED <<conn, written, hungup, served, got, broken>> /\ client[w] \in Clients
    BY <1>4, RecvCases
  <2>2. PICK n \in Nat : /\ taken[client[w]] + n <= written[client[w]]
                         /\ taken' = [taken EXCEPT ![client[w]] = @ + n]
    BY <1>4, RecvCases
  <2>3. PICK v \in Nat : v = taken[client[w]] + n
    BY <1>a, <2>1
  <2> QED
    BY <1>a, <2>1, <2>2, <2>3
<1>5. ASSUME NEW w \in Workers, Serve(w) PROVE TypedPeers'
  <2>1. HasLine(w)
    BY <1>5, ServeCases DEF InStep, Cut, Busy
  <2>2. PICK line \in Seq(Bytes) : line = SubSeq(total_buf[w], 1, LineLen(w))
    BY <1>a, <2>1, LineType
  <2>3. UNCHANGED <<conn, written, taken, hungup, got, broken>>
    BY <1>5, ServeCases
  <2>4. UNCHANGED served \/ served' = [served EXCEPT ![client[w]] = Append(@, line)]
    BY <1>5, <2>2, ServeCases
  <2>5. served' \in [Clients -> Seq(Seq(Bytes))]
    <3>1. served \in [Clients -> Seq(Seq(Bytes))]
      BY <1>a
    <3> HIDE DEF TypedPeers
    <3>2. \A c \in Clients : Append(served[c], line) \in Seq(Seq(Bytes))
      BY <3>1, <2>2, AppendProperties
    <3> QED
      BY <3>1, <3>2, <2>4
  <2> QED
    BY <1>a, <2>3, <2>5
<1>6. ASSUME NEW w \in Workers, SendSome(w) PROVE TypedPeers'
  <2>1. sent[w] \in 0 .. ReplyLen /\ got \in [Clients -> Nat]
    BY <1>a DEF TypedWorkers
  <2>2. UNCHANGED <<conn, written, taken, hungup, served, broken>>
    BY <1>6 DEF SendSome
  <2>3. PICK n \in Nat : got' = [got EXCEPT ![client[w]] = @ + n]
    <3>1. \A n \in 1 .. ReplyLen - sent[w] : n \in Nat
      BY <2>1, Sizes
    <3> HIDE DEF TypedPeers
    <3> QED
      BY <1>6, <3>1 DEF SendSome
  <2>4. got' \in [Clients -> Nat]
    <3> HIDE DEF TypedPeers
    <3>1. client[w] \in Clients
      BY <1>6, <1>a, HasClient DEF SendSome, Free
    <3>2. PICK v \in Nat : v = got[client[w]] + n
      BY <2>1, <2>3, <3>1
    <3> QED
      BY <2>1, <2>3, <3>1, <3>2
  <2> QED
    BY <1>a, <2>2, <2>4
<1>7. ASSUME NEW w \in Workers, SendFails(w), main' # "dead" PROVE TypedPeers'
  BY <1>7, <1>a DEF SendFails, Die
<1>8. ASSUME NEW w \in Workers, Close(w) PROVE TypedPeers'
  BY <1>8, <1>a DEF Close
<1>9. ASSUME NEW w \in Workers, OuterLoop(w) \/ AcceptFails(w) \/ Scan(w) \/ RecvEnds(w) \/ Consume(w)
      PROVE  UNCHANGED peers
  BY <1>9 DEF OuterLoop, AcceptFails, Scan, RecvEnds, Consume
<1>10. CASE CreateWorker
  BY <1>10, <1>a DEF CreateWorker, peers
<1> QED
  BY <1>1, <1>2, <1>3, <1>4, <1>5, <1>6, <1>7, <1>8, <1>9, <1>10, StepsOfNext DEF Quiet

----------------------------------------------------------------------------
(* Who holds which connection.                                             *)

LEMMA HoldingKept == Typed /\ Holding /\ [Next]_vars => Holding'
<1> SUFFICES ASSUME Typed, Holding, [Next]_vars PROVE Holding'
  OBVIOUS
<1> USE DEF Holding, Goto, Free
<1>a. /\ pc \in [Workers -> Free \cup Busy \cup {"close"}]
      /\ client \in [Workers -> Clients \cup {NoClient}]
      /\ conn \in [Clients -> {"new", "queued", "open", "closed"}]
  BY DEF Typed, TypedWorkers, TypedPeers
<1>1. CASE UNCHANGED <<pc, client, conn>>
  BY <1>1
<1>2. CASE CreateWorker
  BY <1>2, <1>a DEF CreateWorker, peers
<1>3. ASSUME NEW c \in Clients, Connect(c) PROVE Holding'
  BY <1>3, <1>a, Sizes DEF Connect, worker
<1>4. ASSUME NEW w \in Workers, Accept(w) PROVE Holding'
  BY <1>4, <1>a, Sizes DEF Accept
<1>5. ASSUME NEW w \in Workers, Close(w) PROVE Holding'
  <2>1. client[w] \in Clients /\ conn[client[w]] = "open"
    BY <1>5, <1>a DEF Close
  <2> QED
    BY <1>5, <1>a, <2>1, Sizes DEF Close
<1>6. ASSUME NEW w \in Workers, NEW label, pc' = [pc EXCEPT ![w] = label],
             pc[w] \in Free <=> label \in Free, UNCHANGED <<client, conn>>
      PROVE  Holding'
  BY <1>6, <1>a
<1>7. ASSUME NEW w \in Workers, OuterLoop(w) \/ AcceptFails(w) \/ Scan(w) \/ RecvEnds(w) PROVE Holding'
  <2>1. UNCHANGED <<client, conn>>
    BY <1>7 DEF OuterLoop, AcceptFails, Scan, RecvEnds, peers
  <2>2. \E label : pc' = [pc EXCEPT ![w] = label] /\ (pc[w] \in Free <=> label \in Free)
    BY <1>7 DEF OuterLoop, AcceptFails, Scan, RecvEnds
  <2> QED
    BY <1>6, <2>1, <2>2
<1>8. ASSUME NEW w \in Workers, Recv(w) \/ Serve(w) \/ Consume(w) PROVE Holding'
  <2>1. UNCHANGED <<client, conn>>
    BY <1>8, ServeCases DEF Recv, Consume, peers
  <2>2. pc[w] \in {"recv", "line", "send"}
    BY <1>8, ServeCases DEF Recv, Consume
  <2>3. \E label \in {"close", "scan", "send"} : pc' = [pc EXCEPT ![w] = label]
    <3>1. CASE Recv(w)
      BY <3>1 DEF Recv
    <3>2. CASE Serve(w)
      BY <3>2, ServeCases
    <3>3. CASE Consume(w)
      BY <3>3 DEF Consume
    <3> QED
      BY <1>8, <3>1, <3>2, <3>3
  <2> QED
    BY <1>6, <2>1, <2>2, <2>3
<1>9. ASSUME NEW w \in Workers, SendFails(w), main' # "dead" PROVE Holding'
  <2>1. /\ pc[w] = "send" /\ pc' = [pc EXCEPT ![w] = "close"]
        /\ UNCHANGED <<client, conn>>
    BY <1>9 DEF SendFails, Die
  <2>2. pc[w] \in Free <=> "close" \in Free
    BY <2>1
  <2> QED
    BY <1>6, <2>1, <2>2
<1>10. ASSUME NEW w \in Workers, SendSome(w) PROVE Holding'
  BY <1>10, <1>1 DEF SendSome
<1>11. ASSUME NEW c \in Clients, Write(c) \/ HangUp(c) PROVE Holding'
  BY <1>11, <1>1 DEF Write, HangUp, worker
<1>12. CASE Quiet
  BY <1>12, <1>1 DEF Quiet, worker, peers
<1> QED
  BY <1>2, <1>3, <1>4, <1>5, <1>7, <1>8, <1>9, <1>10, <1>11, <1>12, StepsOfNext

\* main returns after it has joined every worker, and nothing moves any more.
LEMMA JoinedKept == Joined /\ [Next]_vars => Joined'
<1> SUFFICES ASSUME Joined, [Next]_vars, main' = "done"
             PROVE  \A w \in Workers : pc'[w] = "exited"
  BY DEF Joined
<1>1. CASE UNCHANGED vars
  BY <1>1 DEF Joined, vars, control, worker
<1>2. CASE JoinAndDestroy
  BY <1>2 DEF JoinAndDestroy, worker
<1>3. CASE Alive /\ UNCHANGED main
  BY <1>3 DEF Alive
<1> QED
  BY <1>1, <1>2, <1>3
     DEF Next, MainStep, StartUp, CreateWorker, AllCreated, CheckShutdown, Pause, ShutdownSocket,
         StartFails, Die, Sigint, WorkerStep, CallFails, Connect, Write, HangUp, OuterLoop, Accept,
         AcceptFails, Scan, Recv, RecvEnds, Serve, SendSome, SendFails, Consume, Close, control, Alive

----------------------------------------------------------------------------
(* The requests in what a client writes.                                   *)

\* The first byte is of request 1, and a request goes on until its newline.
LEMMA Labels ==
    ASSUME NEW c \in Clients, NEW n \in 1 .. Len(Script[c])
    PROVE  /\ Script[c][n].req \in Nat
           /\ n = 1 => Script[c][n].req = 1
           /\ n # 1 => Script[c][n].req = IF Script[c][n - 1].nl THEN Script[c][n - 1].req + 1
                                          ELSE Script[c][n - 1].req
<1>1. Script[c][n] \in Bytes
  BY Scripts
<1> QED
  BY <1>1, ServerAssumption DEF Bytes

\* Bytes that come later are of the same request or a later one.
LEMMA Monotone ==
    ASSUME NEW c \in Clients, NEW m \in 1 .. Len(Script[c]), NEW n \in m .. Len(Script[c])
    PROVE  Script[c][m].req <= Script[c][n].req
<1>1. Len(Script[c]) \in Nat
  BY Scripts
<1> DEFINE S == {k \in m .. Len(Script[c]) : Script[c][k].req < Script[c][m].req}
<1>2. S \in SUBSET Nat
  BY <1>1
<1>3. ASSUME S # {} PROVE FALSE
  <2>1. PICK x \in S : \A y \in S : x <= y
    BY <1>2, <1>3, LeastElement
  <2>2. /\ x \in Nat /\ x >= m /\ x <= Len(Script[c])
        /\ Script[c][x].req < Script[c][m].req
    BY <1>1
  <2>3. Script[c][m].req \in Nat /\ Script[c][x].req \in Nat
    BY <1>1, <2>2, Labels
  <2>4. x # m
    BY <2>2, <2>3
  <2>5. x - 1 \in m .. Len(Script[c]) /\ x - 1 \in 1 .. Len(Script[c]) /\ x # 1
    BY <1>1, <2>2, <2>4
  <2>6. ~(Script[c][x - 1].req < Script[c][m].req)
    <3>1. x - 1 \notin S
      BY <1>1, <2>1, <2>2
    <3> QED
      BY <2>5, <3>1
  <2>7. Script[c][x - 1].req \in Nat
    BY <2>5, Labels
  <2>8. Script[c][x].req \in {Script[c][x - 1].req, Script[c][x - 1].req + 1}
    <3>1. x \in 1 .. Len(Script[c]) /\ x # 1
      BY <1>1, <2>2, <2>5
    <3>2. Script[c][x].req = IF Script[c][x - 1].nl THEN Script[c][x - 1].req + 1
                                                    ELSE Script[c][x - 1].req
      BY <3>1, Labels
    <3> QED
      BY <3>2
  <2> DEFINE first == Script[c][m].req
             here  == Script[c][x].req
             prior == Script[c][x - 1].req
  <2>9. /\ first \in Nat /\ here \in Nat /\ prior \in Nat
        /\ here < first /\ ~(prior < first) /\ here \in {prior, prior + 1}
    BY <2>2, <2>3, <2>6, <2>7, <2>8
  <2> HIDE DEF first, here, prior
  <2> QED
    BY <2>9
<1>4. n \notin S
  BY <1>3
<1>5. Script[c][m].req \in Nat /\ Script[c][n].req \in Nat
  BY <1>1, Labels
<1> HIDE DEF S
<1> QED
  BY <1>4, <1>5 DEF S

\* From the end of request k on, the bytes up to the next newline are request k + 1.
LEMMA NextRequest ==
    ASSUME NEW c \in Clients, NEW off \in Nat, NEW k, EndsAt(c, off, k),
           NEW len \in Nat \ {0}, off + len <= Len(Script[c]),
           Script[c][off + len].nl,
           \A i \in off + 1 .. off + len - 1 : ~Script[c][i].nl
    PROVE  /\ k \in Nat
           /\ off + 1 .. off + len = Positions(c, k + 1)
           /\ EndsAt(c, off + len, k + 1)
<1> DEFINE last == off + len
           req(i) == Script[c][i].req
<1>1. Len(Script[c]) \in Nat /\ \A i \in 1 .. Len(Script[c]) : req(i) \in Nat
  BY Scripts, Labels
<1>2. k \in Nat /\ (off > 0 => req(off) = k /\ Script[c][off].nl /\ off \in 1 .. Len(Script[c]))
  BY <1>1 DEF EndsAt
<1>3. off + 1 \in 1 .. Len(Script[c]) /\ req(off + 1) = k + 1
  <2>1. off + 1 \in 1 .. Len(Script[c])
    BY <1>1
  <2>2. CASE off = 0
    BY <2>1, <2>2, Labels DEF EndsAt
  <2>3. CASE off # 0
    <3>1. off + 1 # 1 /\ (off + 1) - 1 = off
      BY <2>3
    <3> QED
      BY <2>1, <2>3, <3>1, <1>2, Labels
  <2> QED
    BY <2>1, <2>2, <2>3
<1>4. \A i \in off + 1 .. last : req(i) = k + 1
  <2> DEFINE S == {i \in off + 1 .. last : req(i) # k + 1}
  <2>1. S \in SUBSET Nat
    OBVIOUS
  <2>2. ASSUME S # {} PROVE FALSE
    <3>1. PICK x \in S : \A y \in S : x <= y
      BY <2>1, <2>2, LeastElement
    <3>2. x \in Nat /\ x >= off + 1 /\ x <= last /\ req(x) # k + 1
      OBVIOUS
    <3>3. x # off + 1
      BY <1>3, <3>2
    <3>4. x - 1 \in off + 1 .. last - 1 /\ x \in 1 .. Len(Script[c]) /\ x # 1
      BY <1>1, <3>2, <3>3
    <3>5. req(x - 1) = k + 1
      <4>1. x - 1 \notin S
        BY <3>1, <3>2
      <4> QED
        BY <4>1, <3>4
    <3>6. ~Script[c][x - 1].nl
      BY <3>4
    <3> QED
      BY <3>2, <3>4, <3>5, <3>6, Labels
  <2> QED
    BY <2>2
<1>5. ASSUME NEW i \in 1 .. off PROVE req(i) # k + 1
  <2>1. off > 0 /\ i \in 1 .. Len(Script[c]) /\ off \in i .. Len(Script[c])
    BY <1>1
  <2>2. req(i) <= req(off) /\ req(off) = k
    BY <2>1, <1>2, Monotone
  <2> QED
    BY <2>1, <2>2, <1>1, <1>2
<1>6. ASSUME NEW i \in last + 1 .. Len(Script[c]) PROVE req(i) # k + 1
  <2>1. /\ last + 1 \in 1 .. Len(Script[c]) /\ i \in last + 1 .. Len(Script[c])
        /\ last + 1 # 1 /\ (last + 1) - 1 = last /\ last \in off + 1 .. last
        /\ i \in 1 .. Len(Script[c])
    BY <1>1
  <2>2. req(last + 1) = k + 2
    <3>1. req(last + 1) = req(last) + 1
      BY <2>1, Labels
    <3> QED
      BY <2>1, <3>1, <1>4, <1>2
  <2>3. req(last + 1) <= req(i)
    BY <2>1, Monotone
  <2> QED
    BY <2>1, <2>2, <2>3, <1>1, <1>2
<1>7. \A i \in 1 .. Len(Script[c]) : i \in 1 .. off \/ i \in off + 1 .. last \/ i \in last + 1 .. Len(Script[c])
  BY <1>1
<1>8. off + 1 .. last \subseteq 1 .. Len(Script[c])
  BY <1>1
<1>9. off + 1 .. last = Positions(c, k + 1)
  BY <1>4, <1>5, <1>6, <1>7, <1>8 DEF Positions
<1>10. EndsAt(c, last, k + 1)
  <2>1. last # 0 /\ last \in off + 1 .. last
    OBVIOUS
  <2> QED
    BY <2>1, <1>4 DEF EndsAt
<1> QED
  BY <1>2, <1>9, <1>10

----------------------------------------------------------------------------
(* The responses.                                                          *)

\* Two workers never have the same client.
LEMMA Alone ==
    ASSUME Holding, NEW v \in Workers, NEW w \in Workers, v # w, client[v] # NoClient
    PROVE  client[v] # client[w]
BY DEF Holding

LEMMA RepliedKept == Typed /\ Holding /\ InStep /\ Replied /\ [Next]_vars => Replied'
<1> SUFFICES ASSUME Typed, Holding, InStep, Replied, [Next]_vars PROVE Replied'
  OBVIOUS
<1> USE DEF Goto
<1>a. /\ pc \in [Workers -> Free \cup Busy \cup {"close"}]
      /\ client \in [Workers -> Clients \cup {NoClient}]
      /\ sent \in [Workers -> 0 .. ReplyLen]
      /\ served \in [Clients -> Seq(Seq(Bytes))] /\ got \in [Clients -> Nat]
      /\ broken \in [Clients -> BOOLEAN]
      /\ ReplyLen \in Nat
  BY Sizes DEF Typed, TypedWorkers, TypedPeers
<1>b. \A c \in Clients : Len(served[c]) \in Nat
  <2> SUFFICES ASSUME NEW c \in Clients PROVE Len(served[c]) \in Nat
    OBVIOUS
  <2>1. served[c] \in Seq(Seq(Bytes))
    BY <1>a
  <2> QED
    BY <2>1, LenProperties, Zenon
<1>1. CASE UNCHANGED <<pc, client, sent, served, got, broken>>
  BY <1>1 DEF Replied
\* A worker goes from one place outside of the sending loop to another.
<1>2. ASSUME NEW w \in Workers, NEW label, pc' = [pc EXCEPT ![w] = label],
             pc[w] # "send", label # "send", UNCHANGED <<client, sent, served, got, broken>>
      PROVE  Replied'
  BY <1>a, <1>2 DEF Replied
<1>3. CASE CreateWorker
  <2>1. PICK w \in Workers : pc[w] = "none" /\ pc' = [pc EXCEPT ![w] = "outer"]
    BY <1>3 DEF CreateWorker
  <2> QED
    BY <1>2, <1>3, <2>1 DEF CreateWorker, peers
<1>4. ASSUME NEW c \in Clients, Connect(c) \/ Write(c) \/ HangUp(c) PROVE Replied'
  BY <1>4, <1>1 DEF Connect, Write, HangUp, worker
<1>5. ASSUME NEW w \in Workers, OuterLoop(w) \/ AcceptFails(w) \/ Scan(w) \/ RecvEnds(w)
      PROVE  Replied'
  <2>1. UNCHANGED <<client, sent, served, got, broken>> /\ pc[w] # "send"
    BY <1>5 DEF OuterLoop, AcceptFails, Scan, RecvEnds, peers
  <2>2. \E label : pc' = [pc EXCEPT ![w] = label] /\ label # "send"
    BY <1>5 DEF OuterLoop, AcceptFails, Scan, RecvEnds
  <2> QED
    BY <1>2, <2>1, <2>2
<1>6. ASSUME NEW w \in Workers, Recv(w) PROVE Replied'
  <2>1. UNCHANGED <<client, sent, served, got, broken>> /\ pc[w] # "send"
    BY <1>6 DEF Recv
  <2>2. \E label : pc' = [pc EXCEPT ![w] = label] /\ label # "send"
    BY <1>6 DEF Recv
  <2> QED
    BY <1>2, <2>1, <2>2
\* A worker changes clients: no response was being sent to either.
<1>7. ASSUME NEW w \in Workers, NEW label, pc' = [pc EXCEPT ![w] = label],
             pc[w] # "send", label # "send", UNCHANGED <<served, got, broken>>,
             NEW c \in Clients \cup {NoClient}, client' = [client EXCEPT ![w] = c],
             \A v \in Workers : pc[v] = "send" => sent'[v] = sent[v]
      PROVE  Replied'
  BY <1>a, <1>7 DEF Replied
<1>8. ASSUME NEW w \in Workers, Accept(w) PROVE Replied'
  <2>1. PICK c \in Clients : client' = [client EXCEPT ![w] = c]
    BY <1>8 DEF Accept
  <2> QED
    BY <1>7, <1>8, <2>1 DEF Accept
<1>9. ASSUME NEW w \in Workers, Close(w) PROVE Replied'
  <2>1. \A v \in Workers : pc[v] = "send" => sent'[v] = sent[v]
    BY <1>a, <1>9 DEF Close
  <2> QED
    BY <1>7, <1>9, <2>1 DEF Close
<1>10. ASSUME NEW w \in Workers, Serve(w) PROVE Replied'
  <2>1. CASE \E label : pc' = [pc EXCEPT ![w] = label] /\ label # "send" /\ UNCHANGED <<sent, served>>
    BY <1>2, <1>10, <2>1, ServeCases
  <2>2. PICK line \in Seq(Bytes) : line = SubSeq(total_buf[w], 1, LineLen(w))
    <3>1. HasLine(w)
      BY <1>10, ServeCases DEF InStep, Cut, Busy
    <3> QED
      BY <3>1, LineType DEF Typed
  <2>3. ASSUME pc' = [pc EXCEPT ![w] = "send"], sent' = [sent EXCEPT ![w] = 0],
               served' = [served EXCEPT ![client[w]] = Append(@, line)]
        PROVE  Replied'
    <3>1. UNCHANGED <<client, got, broken>> /\ pc[w] = "line"
      BY <1>10, ServeCases
    <3>2. PICK c \in Clients : c = client[w] /\ c # NoClient
      BY <3>1, HasClient, Sizes DEF Free, Typed
    <3>3. served'[c] # <<>> /\ Len(served'[c]) - 1 = Len(served[c]) /\ Len(served'[c]) \in Nat
      <4>1. served'[c] = Append(served[c], line) /\ served[c] \in Seq(Seq(Bytes))
        BY <1>a, <2>3, <3>2
      <4>2. Len(served'[c]) = Len(served[c]) + 1
        BY <4>1, AppendProperties
      <4> QED
        BY <1>b, <4>1, <4>2, EmptySeq
    <3>4. \A v \in Workers : v # w => client[v] # c
      BY <3>2 DEF Holding
    <3>5. ~broken[c] => got[c] = ReplyLen * Len(served[c])
      BY <3>1, <3>2, <3>4 DEF Replied
    <3>6. \A d \in Clients : d # c => served'[d] = served[d]
      BY <1>a, <2>3, <3>2
    <3>7. ASSUME NEW v \in Workers, pc'[v] = "send"
          PROVE  /\ served'[client'[v]] # <<>>
                 /\ ~broken'[client'[v]] =>
                       got'[client'[v]] = ReplyLen * (Len(served'[client'[v]]) - 1) + sent'[v]
      <4>1. CASE v = w
        <5>1. sent'[v] = 0 /\ client'[v] = c
          BY <1>a, <2>3, <3>1, <3>2, <4>1
        <5>2. PICK k \in Nat : k = Len(served[c])
          BY <1>b
        <5>3. ReplyLen * k + 0 = ReplyLen * k
          BY <1>a, <5>2
        <5> QED
          BY <3>1, <3>3, <3>5, <5>1, <5>2, <5>3
      <4>2. CASE v # w
        <5>1. pc[v] = "send" /\ sent'[v] = sent[v]
          BY <1>a, <2>3, <3>7, <4>2
        <5>2. client[v] \in Clients /\ client[v] # c
          BY <3>4, <4>2, <5>1, HasClient DEF Free, Typed
        <5> QED
          BY <3>1, <3>6, <5>1, <5>2 DEF Replied
      <4> QED
        BY <4>1, <4>2
    <3>8. ASSUME NEW d \in Clients, ~broken'[d], \A v \in Workers : client'[v] # d \/ pc'[v] # "send"
          PROVE  got'[d] = ReplyLen * Len(served'[d])
      <4>1. d # c /\ \A v \in Workers : client[v] # d \/ pc[v] # "send"
        BY <1>a, <2>3, <3>1, <3>2, <3>8
      <4> QED
        BY <3>1, <3>6, <3>8, <4>1 DEF Replied
    <3> QED
      BY <3>7, <3>8 DEF Replied
  <2> QED
    BY <1>10, <2>1, <2>2, <2>3, ServeCases
<1>11. ASSUME NEW w \in Workers, SendSome(w) PROVE Replied'
  <2>1. /\ pc[w] = "send"
        /\ UNCHANGED <<pc, client, served, broken>>
    BY <1>11 DEF SendSome
  <2>2. PICK c \in Clients : c = client[w] /\ c # NoClient
    BY <2>1, HasClient, Sizes DEF Free, Typed
  <2>3. PICK n \in Nat : /\ sent' = [sent EXCEPT ![w] = @ + n]
                         /\ got' = [got EXCEPT ![c] = @ + n]
    <3>1. \A n \in 1 .. ReplyLen - sent[w] : n \in Nat
      BY <1>a
    <3> QED
      BY <1>11, <2>2, <3>1 DEF SendSome
  <2>4. sent'[w] = sent[w] + n /\ got'[c] = got[c] + n /\ got[c] \in Nat /\ sent[w] \in Nat
    BY <1>a, <2>2, <2>3
  <2>5. /\ \A v \in Workers : v # w => client[v] # c /\ sent'[v] = sent[v]
        /\ \A d \in Clients : d # c => got'[d] = got[d]
    BY <1>a, <2>2, <2>3 DEF Holding
  <2>6. served[c] # <<>> /\ (~broken[c] => got'[c] = ReplyLen * (Len(served[c]) - 1) + sent'[w])
    <3>1. /\ served[c] # <<>>
          /\ ~broken[c] => got[c] = ReplyLen * (Len(served[c]) - 1) + sent[w]
      BY <2>1, <2>2 DEF Replied
    <3>2. PICK p \in Int : p = ReplyLen * (Len(served[c]) - 1)
      <4>1. Len(served[c]) - 1 \in Int
        BY <1>b
      <4> QED
        BY <4>1, <1>a
    <3> QED
      BY <2>4, <3>1, <3>2
  <2>7. ASSUME NEW v \in Workers, pc[v] = "send"
        PROVE  /\ served[client[v]] # <<>>
               /\ ~broken[client[v]] =>
                     got'[client[v]] = ReplyLen * (Len(served[client[v]]) - 1) + sent'[v]
    <3>1. CASE v = w
      BY <2>2, <2>6, <3>1
    <3>2. CASE v # w
      <4>1. client[v] \in Clients
        BY <2>7, HasClient DEF Free, Typed
      <4> QED
        BY <2>5, <2>7, <3>2, <4>1 DEF Replied
    <3> QED
      BY <3>1, <3>2
  <2>8. ASSUME NEW d \in Clients, ~broken[d], \A v \in Workers : client[v] # d \/ pc[v] # "send"
        PROVE  got'[d] = ReplyLen * Len(served[d])
    BY <2>1, <2>2, <2>5, <2>8 DEF Replied
  <2> QED
    BY <2>1, <2>7, <2>8 DEF Replied
<1>12. ASSUME NEW w \in Workers, SendFails(w), main' # "dead" PROVE Replied'
  <2>1. /\ pc[w] = "send" /\ pc' = [pc EXCEPT ![w] = "close"]
        /\ broken' = [broken EXCEPT ![client[w]] = TRUE]
        /\ UNCHANGED <<client, sent, served, got>>
    BY <1>12 DEF SendFails, Die
  <2>2. client[w] \in Clients
    BY <2>1, HasClient DEF Free, Typed
  <2> QED
    BY <1>a, <2>1, <2>2 DEF Replied
<1>13. ASSUME NEW w \in Workers, Consume(w) PROVE Replied'
  <2>1. /\ pc[w] = "send" /\ sent[w] = ReplyLen /\ pc' = [pc EXCEPT ![w] = "scan"]
        /\ UNCHANGED <<client, sent, served, got, broken>>
    BY <1>13 DEF Consume, peers
  <2>2. PICK c \in Clients : c = client[w] /\ c # NoClient
    BY <2>1, HasClient, Sizes DEF Free, Typed
  <2>3. ~broken[c] => got[c] = ReplyLen * Len(served[c])
    <3>1. PICK k \in Nat : k = Len(served[c])
      BY <1>b
    <3>2. ReplyLen * (k - 1) + ReplyLen = ReplyLen * k
      BY <1>a
    <3> QED
      BY <2>1, <2>2, <3>1, <3>2 DEF Replied
  <2>4. \A v \in Workers : v # w => client[v] # c
    BY <2>2 DEF Holding
  <2> QED
    BY <1>a, <2>1, <2>2, <2>3, <2>4 DEF Replied
<1>14. CASE Quiet
  BY <1>14, <1>1 DEF Quiet, worker, peers
<1> QED
  BY <1>3, <1>4, <1>5, <1>6, <1>8, <1>9, <1>10, <1>11, <1>12, <1>13, <1>14, StepsOfNext

----------------------------------------------------------------------------
(* The requests: what is in the buffers, and what was served.              *)

\* The line in w's buffer is the next request of its client.
LEMMA LineIsNext ==
    ASSUME Typed, Holding, NEW w \in Workers, pc[w] \in Busy, Cut(w), HasLine(w)
    PROVE  /\ Answered(w) \in Nat
           /\ Gone(w) + 1 .. Gone(w) + LineLen(w) = Positions(client[w], Answered(w) + 1)
           /\ EndsAt(client[w], Gone(w) + LineLen(w), Answered(w) + 1)
           /\ SubSeq(total_buf[w], 1, LineLen(w)) =
                 SubSeq(Script[client[w]], Gone(w) + 1, Gone(w) + LineLen(w))
           /\ Gone(w) + LineLen(w) <= Len(Script[client[w]])
<1>1. PICK c \in Clients : c = client[w]
  BY HasClient DEF Busy, Free, Typed
<1>2. PICK off \in Nat : off = Gone(w)
  BY DEF Cut
<1>3. PICK len \in Nat \ {0} : len = LineLen(w) /\ len \in 1 .. Len(total_buf[w])
  BY FirstLine DEF Typed
<1>4. Len(total_buf[w]) \in Nat
  BY LenProperties, Zenon DEF Typed, TypedWorkers
<1>5. PICK k : k = Answered(w)
  OBVIOUS
<1>6. off + len <= Len(Script[c])
  <2>1. taken[c] \in Nat /\ taken[c] <= Len(Script[c])
    BY <1>1, Scripts DEF Typed, TypedPeers
  <2>2. off = taken[c] - Len(total_buf[w])
    BY <1>1, <1>2 DEF Gone
  <2> QED
    BY <1>1, <1>3, <1>4, <2>1, <2>2, Scripts
<1>7. \A i \in 1 .. len : total_buf[w][i] = Script[c][off + i]
  BY <1>1, <1>2, <1>3, <1>4 DEF Cut
<1>8. Script[c][off + len].nl
  BY <1>3, <1>7, FirstLine DEF Typed
<1>9. ASSUME NEW i \in off + 1 .. off + len - 1 PROVE ~Script[c][i].nl
  <2>1. i - off \in 1 .. len - 1 /\ i - off \in 1 .. len /\ off + (i - off) = i
    OBVIOUS
  <2>2. ~total_buf[w][i - off].nl
    BY <1>3, <2>1, FirstLine DEF Typed
  <2> QED
    BY <1>7, <2>1, <2>2
<1>10. EndsAt(c, off, k)
  BY <1>1, <1>2, <1>5 DEF Cut
<1>11. /\ k \in Nat
       /\ off + 1 .. off + len = Positions(c, k + 1)
       /\ EndsAt(c, off + len, k + 1)
  BY <1>6, <1>8, <1>9, <1>10, NextRequest
<1>12. SubSeq(total_buf[w], 1, len) = SubSeq(Script[c], off + 1, off + len)
  <2>1. PICK line \in Seq(Bytes) : line = SubSeq(total_buf[w], 1, len)
    BY <1>3, LineType DEF Typed
  <2>2. Len(line) = len /\ \A i \in 1 .. len : line[i] = total_buf[w][i]
    BY <1>3, <2>1, LineType DEF Typed
  <2>3. PICK cut : cut = SubSeq(Script[c], off + 1, off + len)
    OBVIOUS
  <2>4. \A i \in off + 1 .. off + len : Script[c][i] \in Bytes
    BY <1>6, Scripts
  <2>5. (off + len) - (off + 1) + 1 = len /\ off + 1 <= off + len
        /\ \A i \in 1 .. len : (off + 1) + i - 1 = off + i
    OBVIOUS
  <2>6. cut \in Seq(Bytes) /\ Len(cut) = len /\ \A i \in 1 .. len : cut[i] = Script[c][off + i]
    BY <2>3, <2>4, <2>5, SubSeqProperties
  <2>7. line = cut
    BY <1>7, <2>1, <2>2, <2>6, SeqEqual
  <2> QED
    BY <2>1, <2>3, <2>7
<1> QED
  BY <1>1, <1>2, <1>3, <1>5, <1>6, <1>11, <1>12

LEMMA ServedInOrderKept ==
    Typed /\ Holding /\ InStep /\ ServedInOrder /\ [Next]_vars => ServedInOrder'
<1> SUFFICES ASSUME Typed, Holding, InStep, ServedInOrder, [Next]_vars PROVE ServedInOrder'
  OBVIOUS
<1>1. CASE UNCHANGED served
  BY <1>1 DEF ServedInOrder, Positions
<1>2. ASSUME NEW w \in Workers, Serve(w) PROVE ServedInOrder'
  <2>1. pc[w] = "line" /\ Cut(w) /\ HasLine(w)
    BY <1>2, ServeCases DEF InStep, Cut, Busy
  <2>2. PICK c \in Clients : c = client[w]
    BY <2>1, HasClient DEF Free, Typed
  <2>3. PICK line \in Seq(Bytes) : line = SubSeq(total_buf[w], 1, LineLen(w))
    BY <2>1, LineType DEF Typed
  <2>4. CASE served' = [served EXCEPT ![c] = Append(@, line)]
    <3>1. served \in [Clients -> Seq(Seq(Bytes))] /\ served[c] \in Seq(Seq(Bytes))
      BY DEF Typed, TypedPeers
    <3>2. PICK k \in Nat : k = Len(served[c])
      BY <3>1, LenProperties
    <3>3. PICK more : more = Append(served[c], line)
      OBVIOUS
    <3>4. /\ Len(more) = k + 1
          /\ \A i \in 1 .. k : more[i] = served[c][i]
          /\ more[k + 1] = line
      BY <3>1, <3>2, <3>3, AppendProperties
    <3>5. Answered(w) = k
      BY <2>1, <2>2, <3>2 DEF Answered
    <3>6. PICK off \in Nat : off = Gone(w)
      BY <2>1 DEF Cut
    <3>7. PICK len \in Nat \ {0} : len = LineLen(w)
      BY <2>1, FirstLine DEF Typed
    <3>8. /\ off + 1 .. off + len = Positions(c, k + 1)
          /\ line = SubSeq(Script[c], off + 1, off + len)
          /\ off + len <= Len(Script[c])
      BY <2>1, <2>2, <2>3, <3>5, <3>6, <3>7, LineIsNext DEF Busy
    <3>9. off + 1 \in 1 .. Len(Script[c]) /\ off + len \in 1 .. Len(Script[c])
      BY <3>8, Scripts
    <3>10. ASSUME NEW i \in 1 .. Len(more)
           PROVE  \E first, last \in 1 .. Len(Script[c]) :
                     first .. last = Positions(c, i) /\ more[i] = SubSeq(Script[c], first, last)
      <4>1. CASE i = k + 1
        BY <3>4, <3>8, <3>9, <4>1
      <4>2. CASE i # k + 1
        <5>1. i \in 1 .. Len(served[c]) /\ more[i] = served[c][i]
          BY <3>2, <3>4, <4>2
        <5> QED
          BY <5>1 DEF ServedInOrder
      <4> QED
        BY <4>1, <4>2
    <3>11. served'[c] = more /\ \A d \in Clients : d # c => served'[d] = served[d]
      BY <2>4, <3>1, <3>3
    <3>12. ASSUME NEW d \in Clients, NEW i \in 1 .. Len(served'[d])
           PROVE  \E first, last \in 1 .. Len(Script[d]) :
                     first .. last = Positions(d, i) /\ served'[d][i] = SubSeq(Script[d], first, last)
      <4>1. CASE d = c
        BY <3>10, <3>11, <3>12, <4>1
      <4>2. CASE d # c
        <5>1. served'[d] = served[d] /\ i \in 1 .. Len(served[d])
          BY <3>11, <3>12, <4>2
        <5>2. \E first, last \in 1 .. Len(Script[d]) :
                 first .. last = Positions(d, i) /\ served[d][i] = SubSeq(Script[d], first, last)
          BY <5>1 DEF ServedInOrder
        <5> QED
          BY <5>1, <5>2
      <4> QED
        BY <4>1, <4>2
    <3> QED
      BY <3>12 DEF ServedInOrder, Positions
  <2> QED
    BY <1>1, <1>2, <2>2, <2>3, <2>4, ServeCases
<1>3. CASE UNCHANGED peers
  BY <1>1, <1>3 DEF peers
<1> QED
  BY <1>1, <1>2, <1>3, StepsOfNext
     DEF Quiet, CreateWorker, Connect, Write, HangUp, OuterLoop, Accept, AcceptFails, Scan, Recv,
         RecvEnds, SendSome, SendFails, Die, Consume, Close

LEMMA InStepKept == Typed /\ Holding /\ InStep /\ [Next]_vars => InStep'
<1> SUFFICES ASSUME Typed, Holding, InStep, [Next]_vars PROVE InStep'
  OBVIOUS
<1> USE DEF Goto
<1>a. /\ pc \in [Workers -> Free \cup Busy \cup {"close"}]
      /\ client \in [Workers -> Clients \cup {NoClient}]
      /\ total_buf \in [Workers -> Seq(Bytes)]
      /\ conn \in [Clients -> {"new", "queued", "open", "closed"}]
      /\ taken \in [Clients -> Nat]
      /\ served \in [Clients -> Seq(Seq(Bytes))]
  BY DEF Typed, TypedWorkers, TypedPeers
<1>b. \A v \in Workers : Len(total_buf[v]) \in Nat
  BY <1>a, LenProperties
<1>c. Untouched /\ \A w \in Workers : pc[w] \in Busy => Cut(w)
  BY DEF InStep
\* A worker whose place, buffer and client the step leaves alone.
<1>d. ASSUME NEW v \in Workers, pc'[v] = pc[v], client'[v] = client[v],
             total_buf'[v] = total_buf[v], pc[v] \in Busy,
             taken'[client[v]] = taken[client[v]], served'[client[v]] = served[client[v]]
      PROVE  Cut(v)'
  <2>1. Gone(v)' = Gone(v) /\ Answered(v)' = Answered(v) /\ HasLine(v)' = HasLine(v)
    BY <1>d DEF Gone, Answered, HasLine
  <2>2. EndsAt(client[v], Gone(v), Answered(v))' = EndsAt(client[v], Gone(v), Answered(v))
    BY <1>d, <2>1 DEF EndsAt
  <2> QED
    BY <1>c, <1>d, <2>1, <2>2 DEF Cut
<1>1. CASE UNCHANGED <<pc, client, total_buf, taken, served>> /\ UNCHANGED conn
  BY <1>1, <1>c, <1>d DEF InStep, Untouched
<1>2. ASSUME NEW c \in Clients, Connect(c) PROVE InStep'
  <2>1. /\ conn[c] = "new" /\ conn' = [conn EXCEPT ![c] = "queued"]
        /\ UNCHANGED <<pc, client, total_buf, taken, served>>
    BY <1>2 DEF Connect, worker
  <2>2. Untouched'
    BY <1>a, <1>c, <2>1 DEF Untouched
  <2> QED
    BY <2>1, <2>2, <1>d DEF InStep
<1>3. ASSUME NEW c \in Clients, Write(c) \/ HangUp(c) PROVE InStep'
  BY <1>3, <1>1 DEF Write, HangUp, worker
\* A worker goes on to another place, and has a line in the buffer if it is there
\* that it will serve it.
<1>4. ASSUME NEW w \in Workers, NEW label, pc' = [pc EXCEPT ![w] = label],
             label \in Busy => pc[w] \in Busy \ {"send"}, label # "send",
             label = "line" => HasLine(w),
             UNCHANGED <<client, total_buf, taken, served, conn>>
      PROVE  InStep'
  <2>1. Untouched'
    BY <1>4, <1>c DEF Untouched
  <2>2. ASSUME NEW v \in Workers, pc'[v] \in Busy PROVE Cut(v)'
    <3>1. CASE v # w
      BY <1>a, <1>4, <2>2, <3>1, <1>d
    <3>2. CASE v = w
      <4>1. pc'[w] = label /\ pc[w] \in Busy \ {"send"} /\ Cut(w)
        BY <1>a, <1>c, <1>4, <2>2, <3>2
      <4>2. Gone(w)' = Gone(w) /\ Answered(w)' = Answered(w) /\ HasLine(w)' = HasLine(w)
        BY <1>4, <4>1 DEF Gone, Answered, HasLine
      <4>3. EndsAt(client[w], Gone(w), Answered(w))' = EndsAt(client[w], Gone(w), Answered(w))
        BY <1>4, <4>2 DEF EndsAt
      <4> QED
        BY <1>4, <3>2, <4>1, <4>2, <4>3 DEF Cut
    <3> QED
      BY <3>1, <3>2
  <2> QED
    BY <2>1, <2>2 DEF InStep
<1>5. CASE CreateWorker
  <2>1. PICK w \in Workers : pc' = [pc EXCEPT ![w] = "outer"]
    BY <1>5 DEF CreateWorker
  <2>2. "outer" \notin Busy
    BY DEF Busy
  <2> QED
    BY <1>4, <1>5, <2>1, <2>2 DEF CreateWorker, peers
<1>6. ASSUME NEW w \in Workers, OuterLoop(w) \/ AcceptFails(w) \/ Scan(w) \/ RecvEnds(w)
      PROVE  InStep'
  <2>1. UNCHANGED <<client, total_buf, taken, served, conn>>
    BY <1>6 DEF OuterLoop, AcceptFails, Scan, RecvEnds, peers
  <2>2. \E label : /\ pc' = [pc EXCEPT ![w] = label]
                   /\ label \in Busy => pc[w] \in Busy \ {"send"}
                   /\ label # "send" /\ (label = "line" => HasLine(w))
    BY <1>6 DEF OuterLoop, AcceptFails, Scan, RecvEnds, Busy
  <2> QED
    BY <1>4, <2>1, <2>2
<1>7. ASSUME NEW w \in Workers, SendSome(w) PROVE InStep'
  BY <1>7, <1>1 DEF SendSome
<1>8. ASSUME NEW w \in Workers, SendFails(w), main' # "dead" PROVE InStep'
  <2>1. pc' = [pc EXCEPT ![w] = "close"] /\ UNCHANGED <<client, total_buf, taken, served, conn>>
    BY <1>8 DEF SendFails, Die
  <2> QED
    BY <1>4, <2>1 DEF Busy
\* A worker takes the client c, to which nothing has happened yet.
<1>9. ASSUME NEW w \in Workers, Accept(w) PROVE InStep'
  <2>1. PICK c \in Clients : /\ conn[c] = "queued" /\ conn' = [conn EXCEPT ![c] = "open"]
                             /\ client' = [client EXCEPT ![w] = c]
    BY <1>9 DEF Accept
  <2>2. /\ total_buf' = [total_buf EXCEPT ![w] = <<>>] /\ pc' = [pc EXCEPT ![w] = "scan"]
        /\ UNCHANGED <<taken, served>>
    BY <1>9 DEF Accept
  <2>3. taken[c] = 0 /\ served[c] = <<>> /\ Untouched'
    BY <1>a, <1>c, <2>1, <2>2 DEF Untouched
  <2>4. ASSUME NEW v \in Workers, pc'[v] \in Busy PROVE Cut(v)'
    <3>1. CASE v # w
      BY <1>a, <2>1, <2>2, <2>4, <3>1, <1>d
    <3>2. CASE v = w
      <4>1. pc'[w] = "scan" /\ total_buf'[w] = <<>> /\ client'[w] = c /\ Len(<<>>) = 0
        BY <1>a, <2>1, <2>2, EmptySeq
      <4>2. Gone(w)' = 0 /\ Answered(w)' = 0
        BY <2>2, <2>3, <4>1 DEF Gone, Answered
      <4> QED
        BY <3>2, <4>1, <4>2 DEF Cut, EndsAt
    <3> QED
      BY <3>1, <3>2
  <2> QED
    BY <2>3, <2>4 DEF InStep
\* A worker lets go of its client.
<1>10. ASSUME NEW w \in Workers, Close(w) PROVE InStep'
  <2>1. /\ conn' = [conn EXCEPT ![client[w]] = "closed"]
        /\ client' = [client EXCEPT ![w] = NoClient]
        /\ total_buf' = [total_buf EXCEPT ![w] = <<>>] /\ pc' = [pc EXCEPT ![w] = "outer"]
        /\ UNCHANGED <<taken, served>>
    BY <1>10 DEF Close
  <2>2. Untouched'
    BY <1>a, <1>c, <2>1 DEF Untouched
  <2>3. ASSUME NEW v \in Workers, pc'[v] \in Busy PROVE Cut(v)'
    <3>1. v # w
      BY <1>a, <2>1, <2>3 DEF Busy
    <3> QED
      BY <1>a, <2>1, <2>3, <3>1, <1>d
  <2> QED
    BY <2>2, <2>3 DEF InStep
\* The buffer and what has been taken grow by the same bytes.
<1>11. ASSUME NEW w \in Workers, Recv(w) PROVE InStep'
  <2>1. PICK c \in Clients : c = client[w] /\ c # NoClient
    BY <1>11, RecvCases, Sizes
  <2>2. pc[w] = "recv" /\ UNCHANGED <<client, served, conn>>
    BY <1>11, RecvCases
  <2>3. PICK n \in Nat \ {0} :
           /\ taken' = [taken EXCEPT ![client[w]] = @ + n]
           /\ \/ Goto(w, "close") /\ UNCHANGED total_buf
              \/ \E more \in Seq(Bytes) :
                    /\ Goto(w, "scan") /\ total_buf' = [total_buf EXCEPT ![w] = more]
                    /\ Len(more) = Len(total_buf[w]) + n /\ Len(more) <= BUF_SIZE
                    /\ \A i \in 1 .. Len(total_buf[w]) : more[i] = total_buf[w][i]
                    /\ \A i \in 1 .. n :
                          more[Len(total_buf[w]) + i] = Script[client[w]][taken[client[w]] + i]
    BY <1>11, RecvCases
  <2>4. conn[c] = "open"
    BY <2>1, <2>2, HasClient DEF Free, Typed
  <2>t. PICK t \in Nat : taken' = [taken EXCEPT ![c] = t] /\ t = taken[c] + n
    <3>1. taken[c] \in Nat
      BY <1>a
    <3>2. PICK t \in Nat : t = taken[c] + n
      BY <3>1
    <3>3. taken' = [taken EXCEPT ![c] = taken[c] + n]
      BY <2>1, <2>3, Zenon
    <3> QED
      BY <3>2, <3>3
  <2>5. Untouched'
    BY <1>a, <1>c, <2>2, <2>t, <2>4 DEF Untouched
  <2>6. ASSUME NEW v \in Workers, pc'[v] \in Busy, v # w PROVE Cut(v)'
    <3>1. pc'[v] = pc[v] /\ total_buf'[v] = total_buf[v]
      BY <1>a, <2>3, <2>6
    <3>2. client[v] \in Clients /\ client[v] # c
      BY <2>1, <2>6, <3>1, HasClient DEF Busy, Free, Typed, Holding
    <3>3. taken'[client[v]] = taken[client[v]]
      BY <1>a, <2>t, <3>2
    <3> QED
      BY <2>2, <2>6, <3>1, <3>2, <3>3, <1>d
  <2>7. ASSUME pc'[w] \in Busy PROVE Cut(w)'
    <3>1. PICK more \in Seq(Bytes) :
             /\ pc' = [pc EXCEPT ![w] = "scan"] /\ total_buf' = [total_buf EXCEPT ![w] = more]
             /\ Len(more) = Len(total_buf[w]) + n
             /\ \A i \in 1 .. Len(total_buf[w]) : more[i] = total_buf[w][i]
             /\ \A i \in 1 .. n :
                   more[Len(total_buf[w]) + i] = Script[client[w]][taken[client[w]] + i]
      <4>1. pc'[w] # "close"
        BY <2>7 DEF Busy
      <4> QED
        BY <1>a, <2>3, <4>1
    <3>2. /\ pc'[w] = "scan" /\ total_buf'[w] = more /\ client'[w] = c
          /\ taken'[c] = taken[c] + n
      BY <1>a, <2>1, <2>2, <2>t, <3>1
    <3>3. Cut(w)
      BY <1>c, <2>2 DEF Busy
    <3>4. PICK off \in Nat : off = Gone(w) /\ off = taken[c] - Len(total_buf[w])
      BY <2>1, <3>3 DEF Cut, Gone
    <3>5. PICK l \in Nat : l = Len(total_buf[w])
      BY <1>b
    <3>6. PICK a \in Nat : a = taken[c]
      BY <1>a
    <3>7. a = off + l
      BY <3>4, <3>5, <3>6
    <3>8. Gone(w)' = off
      <4>1. Gone(w)' = (a + n) - (l + n)
        BY <3>1, <3>2, <3>5, <3>6 DEF Gone
      <4> QED
        BY <3>7, <4>1
    <3>9. Answered(w)' = Answered(w)
      BY <2>1, <2>2, <3>2 DEF Answered
    <3>10. EndsAt(client[w], Gone(w), Answered(w))'
      BY <2>1, <3>2, <3>3, <3>4, <3>8, <3>9 DEF Cut, EndsAt
    <3>11. ASSUME NEW i \in 1 .. Len(more) PROVE more[i] = Script[c][off + i]
      <4>1. CASE i <= l
        BY <2>1, <3>1, <3>3, <3>4, <3>5, <4>1 DEF Cut
      <4>2. CASE ~(i <= l)
        <5>1. i - l \in 1 .. n /\ l + (i - l) = i /\ a + (i - l) = off + i
          <6>1. i \in 1 .. l + n
            BY <3>1, <3>5
          <6> QED
            BY <3>7, <4>2, <6>1
        <5>2. more[l + (i - l)] = Script[c][a + (i - l)]
          BY <2>1, <3>1, <3>5, <3>6, <5>1
        <5> QED
          BY <5>1, <5>2
      <4> QED
        BY <4>1, <4>2
    <3> QED
      BY <3>2, <3>8, <3>10, <3>11 DEF Cut
  <2> QED
    BY <2>5, <2>6, <2>7 DEF InStep
\* One more request is served, and it counts as answered when its response is out.
<1>12. ASSUME NEW w \in Workers, Serve(w) PROVE InStep'
  <2>1. pc[w] = "line" /\ UNCHANGED <<client, total_buf, taken, conn>>
    BY <1>12, ServeCases
  <2>2. PICK c \in Clients : c = client[w] /\ c # NoClient /\ conn[c] = "open"
    BY <2>1, HasClient, Sizes DEF Free, Typed
  <2>3. CASE \E label \in {"close", "scan"} : pc' = [pc EXCEPT ![w] = label] /\ UNCHANGED served
    BY <1>4, <2>1, <2>3 DEF Busy
  <2>4. PICK line \in Seq(Bytes) : line = SubSeq(total_buf[w], 1, LineLen(w))
    <3>1. HasLine(w)
      BY <1>c, <2>1 DEF Cut, Busy
    <3> QED
      BY <3>1, LineType DEF Typed
  <2>5. CASE /\ pc' = [pc EXCEPT ![w] = "send"]
             /\ served' = [served EXCEPT ![c] = Append(@, line)]
    <3>1. Untouched'
      BY <1>a, <1>c, <2>1, <2>2, <2>5 DEF Untouched
    <3>2. ASSUME NEW v \in Workers, pc'[v] \in Busy, v # w PROVE Cut(v)'
      <4>1. pc'[v] = pc[v]
        BY <1>a, <2>5, <3>2
      <4>2. client[v] \in Clients /\ client[v] # c
        BY <2>2, <3>2, <4>1, HasClient DEF Busy, Free, Typed, Holding
      <4>3. served'[client[v]] = served[client[v]]
        BY <1>a, <2>5, <4>2
      <4> QED
        BY <2>1, <3>2, <4>1, <4>3, <1>d
    <3>3. Cut(w)'
      <4>1. Cut(w) /\ HasLine(w)
        BY <1>c, <2>1 DEF Cut, Busy
      <4>2. Len(served'[c]) = Len(served[c]) + 1 /\ Len(served[c]) \in Nat
        <5>1. served[c] \in Seq(Seq(Bytes)) /\ served'[c] = Append(served[c], line)
          BY <1>a, <2>5
        <5> QED
          BY <5>1, AppendProperties, LenProperties
      <4>3. Gone(w)' = Gone(w) /\ HasLine(w)' = HasLine(w)
        BY <2>1 DEF Gone, HasLine
      <4>4. Answered(w)' = Answered(w)
        <5>1. pc'[w] = "send"
          BY <1>a, <2>5
        <5> QED
          BY <2>1, <2>2, <4>2, <5>1 DEF Answered
      <4>5. EndsAt(client[w], Gone(w), Answered(w))' = EndsAt(client[w], Gone(w), Answered(w))
        BY <2>1, <4>3, <4>4 DEF EndsAt
      <4> QED
        BY <2>1, <4>1, <4>3, <4>5 DEF Cut
    <3> QED
      BY <3>1, <3>2, <3>3 DEF InStep
  <2> QED
    BY <1>12, <2>2, <2>3, <2>4, <2>5, ServeCases
\* The line leaves the buffer, and its request is answered.
<1>13. ASSUME NEW w \in Workers, Consume(w) PROVE InStep'
  <2>1. /\ pc[w] = "send" /\ pc' = [pc EXCEPT ![w] = "scan"]
        /\ UNCHANGED <<client, taken, served, conn>>
    BY <1>13 DEF Consume, peers
  <2>2. Untouched'
    BY <1>c, <2>1 DEF Untouched
  <2>3. Cut(w) /\ HasLine(w)
    BY <1>c, <2>1 DEF Cut, Busy
  <2>4. PICK c \in Clients : c = client[w]
    BY <2>1, HasClient DEF Free, Typed
  <2>5. PICK off \in Nat : off = Gone(w) /\ off = taken[c] - Len(total_buf[w])
    BY <2>3, <2>4 DEF Cut, Gone
  <2>6. PICK buf \in Seq(Bytes) : buf = total_buf[w]
    BY <1>a
  <2>7. PICK len \in Nat \ {0} : len = LineLen(w) /\ len \in 0 .. Len(buf) /\ Len(buf) \in Nat
    BY <1>b, <2>3, <2>6, FirstLine DEF Typed
  <2>8. PICK rest : rest = SubSeq(buf, len + 1, Len(buf))
    OBVIOUS
  <2>9. /\ Len(rest) = Len(buf) - len
        /\ \A i \in 1 .. Len(buf) - len : rest[i] = buf[len + i]
    BY <2>7, <2>8, Dropped
  <2>10. total_buf' = [total_buf EXCEPT ![w] = rest]
    BY <1>13, <2>6, <2>7, <2>8 DEF Consume, Drop
  <2>11. ASSUME NEW v \in Workers, pc'[v] \in Busy, v # w PROVE Cut(v)'
    BY <1>a, <2>1, <2>10, <2>11, <1>d
  <2>12. Cut(w)'
    <3>1. total_buf'[w] = rest /\ pc'[w] = "scan"
      BY <1>a, <2>1, <2>10
    <3>2. Gone(w)' = off + len
      <4>1. PICK a \in Nat : a = taken[c]
        BY <1>a
      <4>2. PICK l \in Nat : l = Len(buf)
        BY <2>7
      <4>3. off = a - l /\ Gone(w)' = a - (l - len)
        BY <2>1, <2>4, <2>5, <2>6, <2>9, <3>1, <4>1, <4>2 DEF Gone
      <4> QED
        BY <4>3
    <3>3. Answered(w)' = Answered(w) + 1
      <4>1. PICK k \in Nat : k = Len(served[c])
        BY <1>a, LenProperties
      <4>2. Answered(w) = k - 1 /\ Answered(w)' = k - 0
        BY <2>1, <2>4, <3>1, <4>1 DEF Answered
      <4> QED
        BY <4>2
    <3>4. EndsAt(client[w], Gone(w), Answered(w))'
      <4>1. EndsAt(c, off + len, Answered(w) + 1)
        BY <2>1, <2>3, <2>4, <2>5, <2>7, LineIsNext DEF Busy
      <4> QED
        BY <2>1, <2>4, <3>2, <3>3, <4>1 DEF EndsAt
    <3>5. ASSUME NEW i \in 1 .. Len(rest) PROVE rest[i] = Script[c][(off + len) + i]
      <4>1. len + i \in 1 .. Len(buf) /\ off + (len + i) = (off + len) + i
        BY <2>7, <2>9
      <4>2. buf[len + i] = Script[c][off + (len + i)]
        BY <2>3, <2>4, <2>5, <2>6, <4>1 DEF Cut
      <4> QED
        BY <2>9, <4>1, <4>2
    <3> QED
      BY <2>1, <2>4, <3>1, <3>2, <3>4, <3>5 DEF Cut
  <2> QED
    BY <2>2, <2>11, <2>12 DEF InStep
<1>14. CASE Quiet
  BY <1>14, <1>1 DEF Quiet, worker, peers
<1> QED
  BY <1>2, <1>3, <1>5, <1>6, <1>7, <1>8, <1>9, <1>10, <1>11, <1>12, <1>13, <1>14, StepsOfNext

----------------------------------------------------------------------------
(* The theorems.                                                           *)

\* IInv is inductive: Server never leaves it.
THEOREM ServerInvariant == Spec => []IInv
<1>1. IInv /\ [Next]_vars => IInv'
  BY TypedMainKept, TypedWorkersKept, TypedPeersKept, HoldingKept, JoinedKept, RepliedKept,
     InStepKept, ServedInOrderKept
     DEF IInv, Typed
<1> QED
  BY Initially, <1>1, PTL DEF Spec

\* Type correctness; in particular no recv overfills total_buf, which takes
\* BUF_SIZE bytes: handle_client's test before its memcpy.
THEOREM ServerTypes == Spec => []TypeOK
<1>1. IInv => TypeOK
  <2> SUFFICES ASSUME IInv PROVE TypeOK
    OBVIOUS
  <2> QED
    BY DEF IInv, Typed, TypedMain, TypedWorkers, TypedPeers, TypeOK, Free, Busy
<1> QED
  BY ServerInvariant, <1>1, PTL

\* However the bytes of a client are cut up by its writes and by recv, handle_client
\* serves its requests whole, in order, each once.
THEOREM RequestsInOrder == Spec => []ServedInOrder
<1>1. IInv => ServedInOrder
  BY DEF IInv
<1> QED
  BY ServerInvariant, <1>1, PTL

\* The loop around send sends every response whole, whatever each send takes of it.
THEOREM ResponsesWhole == Spec => []RepliesWhole
<1>1. IInv => RepliesWhole
  BY DEF IInv, Replied, RepliesWhole
<1> QED
  BY ServerInvariant, <1>1, PTL

\* A connection is open exactly while one worker has it, and none is open when main
\* has destroyed the store.
THEOREM OneWorkerPerConnection == Spec => []OneHolder
<1>1. IInv => OneHolder
  <2> SUFFICES ASSUME IInv, NEW c \in Clients
               PROVE  /\ Cardinality({w \in Workers : client[w] = c}) =
                            IF conn[c] = "open" THEN 1 ELSE 0
                      /\ main = "done" => conn[c] # "open"
    BY DEF OneHolder
  <2>1. Holding /\ Joined
    BY DEF IInv
  <2>2. CASE conn[c] = "open"
    <3>1. PICK w \in Workers : client[w] = c
      BY <2>1, <2>2 DEF Holding
    <3>2. {v \in Workers : client[v] = c} = {w}
      BY <2>1, <3>1, Sizes DEF Holding
    <3>3. pc[w] # "exited"
      BY <2>1, <3>1, Sizes DEF Holding, Free
    <3> QED
      BY <2>1, <2>2, <3>2, <3>3, FS_Singleton DEF Joined
  <2>3. CASE conn[c] # "open"
    <3>1. {v \in Workers : client[v] = c} = {}
      BY <2>1, <2>3, Sizes DEF Holding
    <3> QED
      BY <2>3, <3>1, FS_EmptySet
  <2> QED
    BY <2>2, <2>3
<1> QED
  BY ServerInvariant, <1>1, PTL

=============================================================================
