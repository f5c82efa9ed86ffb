-------------------------- MODULE HttpRequestProofs --------------------------
(***************************************************************************)
(* What https_get and http_get promise, for buffers, requests, replies and  *)
(* chunks of every size.                                                    *)
(***************************************************************************)
EXTENDS HttpRequest, TLAPS

\* Reading consumes what was sent, and keeps all of it while it fits.
KeptInv ==
    /\ read <= replied /\ replied <= replyLen
    /\ kept \subseteq 1 .. read
    /\ pc \in { "connect", "handshake", "write" } => kept = {} /\ read = 0 /\ total = 0
    /\ pc = "done" /\ ret = -1 => kept = {}
    /\ replyLen + 1 < RespSize /\ pc # "done" => total = read /\ kept = 1 .. read

\* How far the request has got at each place.
WrittenInv ==
    /\ pc \in { "connect", "handshake" } => written = 0
    /\ ~tls => /\ pc = "write" => written = 0
               /\ pc = "done" /\ ret = -1 => written = 0
    /\ tls =>
           /\ pc \in { "connect", "handshake", "write" } => written < RequestLen
           /\ pc \in { "read", "strip" } => written = RequestLen
           /\ pc = "done" => (ret = 0 <=> written = RequestLen)

\* The inductive invariant of a request.
IInv == TypeOK /\ WithinBuffer /\ KeptInv /\ WrittenInv

------------------------------------------------------------------------------

\* A request that has not begun.
LEMMA InitIInv == Init => IInv
  BY RequestAssumption DEF Init, IInv, TypeOK, Places, WithinBuffer, KeptInv,
     WrittenInv

\* Every step of the client and of the server.
LEMMA IInvStep == ASSUME IInv, [Next]_vars PROVE IInv'
  <1> USE RequestAssumption DEF IInv, TypeOK, Places, WithinBuffer, KeptInv,
          WrittenInv, response, server, Fail
  <1>1. CASE Connect
    BY <1>1 DEF Connect
  <1>2. CASE Handshake
    BY <1>2 DEF Handshake
  <1>3. CASE WriteTls
    BY <1>3 DEF WriteTls, WriteFailed
  <1>4. CASE WritePlain
    BY <1>4 DEF WritePlain
  <1>5. CASE Read
    <2>1. PICK n \in 1 .. ChunkMax :
             /\ read + n <= replied
             /\ read' = read + n
             /\ IF Fits(n) THEN /\ total' = total + n
                                /\ kept' = kept \union (read + 1 .. read + n)
                           ELSE UNCHANGED << total, kept >>
      BY <1>5 DEF Read
    <2>2. n \in Nat /\ n > 0
      OBVIOUS
    <2> USE <1>5, <2>1, <2>2 DEF Read
    <2>3. TypeOK'
      <3>1. read + 1 .. read + n \subseteq Nat
        OBVIOUS
      <3>2. kept' \subseteq Nat
        BY <3>1
      <3>3. read' \in Nat /\ total' \in Nat
        OBVIOUS
      <3> QED
        BY <3>2, <3>3
    <2>4. WithinBuffer'
      BY DEF Fits
    <2>5. KeptInv'
      <3>1. read' <= replied' /\ replied' <= replyLen' /\ pc' = "read"
        OBVIOUS
      <3>2. kept' \subseteq 1 .. read'
        <4>1. kept \subseteq 1 .. read + n
          OBVIOUS
        <4>2. read + 1 .. read + n \subseteq 1 .. read + n
          OBVIOUS
        <4> QED
          BY <4>1, <4>2
      <3>3. ASSUME replyLen + 1 < RespSize
            PROVE  total' = read' /\ kept' = 1 .. read'
        <4>1. total = read /\ kept = 1 .. read
          BY <3>3
        <4>2. Fits(n)
          BY <3>3, <4>1 DEF Fits
        <4>3. (1 .. read) \union (read + 1 .. read + n) = 1 .. read + n
          BY DEF IInv, TypeOK
        <4>4. total' = total + n /\ kept' = kept \union (read + 1 .. read + n)
          BY <4>2, Zenon
        <4> QED
          BY <4>1, <4>3, <4>4
      <3>4. replyLen' = replyLen
        OBVIOUS
      <3> HIDE <1>5, <2>1
      <3> QED
        BY <3>1, <3>2, <3>3, <3>4
    <2>6. WrittenInv'
      OBVIOUS
    <2> QED
      BY <2>3, <2>4, <2>5, <2>6
  <1>6. CASE ReadEnd
    BY <1>6 DEF ReadEnd
  <1>7. CASE Strip
    BY <1>7 DEF Strip, Result
  <1>8. CASE Reply
    BY <1>8 DEF Reply
  <1>9. CASE ClosePeer
    BY <1>9 DEF ClosePeer
  <1>10. CASE Returned \/ UNCHANGED vars
    <2>1. UNCHANGED vars
      BY <1>10 DEF Returned
    <2>2. TypeOK'
      BY <2>1, Zenon DEF vars
    <2> QED
      BY <2>1, <2>2 DEF vars
  <1> QED
    BY <1>1, <1>2, <1>3, <1>4, <1>5, <1>6, <1>7, <1>8, <1>9, <1>10
       DEF Next, Client

\* The invariant holds of every request.
THEOREM Inductive == Spec => []IInv
  <1>1. IInv /\ [Next]_vars => IInv'
    BY IInvStep
  <1> QED
    BY <1>1, InitIInv, PTL DEF Spec

\* Type correctness of a request's state.
THEOREM TypeCorrect == Spec => []TypeOK
  <1>1. IInv => TypeOK
    BY DEF IInv
  <1> QED
    BY <1>1, Inductive, PTL

\* The reply and its terminating zero stay within the buffer
\* (gamestream.c:150-155, 201-206).
THEOREM ReplyStaysWithinBuffer == Spec => []WithinBuffer
  <1>1. IInv => WithinBuffer
    BY DEF IInv
  <1> QED
    BY <1>1, Inductive, PTL

\* A reply that fits is kept whole (gamestream.c:144-155, 198-206).
THEOREM ReplyIsWhole == Spec => []WholeWhenFits
  <1>1. IInv => WholeWhenFits
    BY DEF IInv, KeptInv, WholeWhenFits
  <1> QED
    BY <1>1, Inductive, PTL

\* https_get fails exactly when the request was not written whole, so that no
\* server can have it (gamestream.c:86-139, 163).
THEOREM FailureIsUnsent == Spec => []ReturnTellsWritten
  <1>1. IInv => ReturnTellsWritten
    BY RequestAssumption
       DEF IInv, TypeOK, WrittenInv, ReturnTellsWritten
  <1> QED
    BY <1>1, Inductive, PTL

------------------------------------------------------------------------------
(***************************************************************************)
(* HttpRequest implements Request.                                          *)
(***************************************************************************)

\* A request starts as Request says.
LEMMA AtomicInit == Init => Atomic!Init
  BY RequestAssumption DEF Init, Atomic!Init

\* Strip completes the request with bytes that came from the server, in order
\* and without a gap when they fit (gamestream.c:155-163, 206-211).
LEMMA StripSucceeds == ASSUME IInv, Strip PROVE Atomic!Succeed
  <1> USE DEF Strip
  <1>1. kept \in SUBSET (1 .. replied)
    BY DEF IInv, KeptInv, TypeOK
  <1>2. replyLen + 1 < RespSize => \E n \in 0 .. replied : kept = 1 .. n
    BY DEF IInv, KeptInv, TypeOK
  <1>3. kept' = Atomic!WithoutHeaders(kept)
    BY DEF Atomic!WithoutHeaders, Atomic!Headers
  <1>4. tls => written = RequestLen
    BY DEF IInv, WrittenInv
  <1>5. pc # "done" /\ pc' = "done" /\ ret' = 0
    BY DEF Result
  <1>6. UNCHANGED << tls, replyLen, written, replied >>
    BY DEF server
  <1> QED
    BY <1>1, <1>2, <1>3, <1>4, <1>5, <1>6 DEF Atomic!Succeed

\* Each step of the functions and of the server is one of Request's, or is
\* hidden by it.
LEMMA AtomicStep ==
    ASSUME IInv, [Next]_vars PROVE [Atomic!Next]_(Atomic!vars)
  <1> USE RequestAssumption DEF Atomic!Next, Atomic!vars, response, server, Fail
  <1>1. CASE Connect
    BY <1>1 DEF Connect, Atomic!Fail, IInv, TypeOK, KeptInv, WrittenInv
  <1>2. CASE Handshake
    BY <1>2 DEF Handshake, Atomic!Fail, IInv, TypeOK, KeptInv, WrittenInv
  <1>3. CASE WriteTls
    BY <1>3 DEF WriteTls, WriteFailed, Atomic!Fail, Atomic!WriteWhole, IInv, TypeOK,
       KeptInv, WrittenInv
  <1>4. CASE WritePlain
    BY <1>4 DEF WritePlain, Atomic!WriteWhole, IInv, TypeOK, KeptInv, WrittenInv
  <1>5. CASE Read
    BY <1>5 DEF Read
  <1>6. CASE ReadEnd
    BY <1>6 DEF ReadEnd
  <1>7. CASE Strip
    BY <1>7, StripSucceeds
  <1>8. CASE Reply
    BY <1>8 DEF Reply, Atomic!Answer, IInv, TypeOK
  <1>9. CASE ClosePeer
    BY <1>9 DEF ClosePeer
  <1>10. CASE Returned \/ UNCHANGED vars
    BY <1>10 DEF Returned, vars
  <1> QED
    BY <1>1, <1>2, <1>3, <1>4, <1>5, <1>6, <1>7, <1>8, <1>9, <1>10
       DEF Next, Client

\* https_get and http_get are one request to their callers: it fails unwritten, or
\* gives what came (gamestream.c:66-212).
THEOREM IsOneRequest == Spec => ImplementsRequest
  <1>1. IInv /\ [Next]_vars => [Atomic!Next]_(Atomic!vars)
    BY AtomicStep
  <1> QED
    BY <1>1, AtomicInit, Inductive, PTL
       DEF Spec, ImplementsRequest, Atomic!Spec

------------------------------------------------------------------------------
(***************************************************************************)
(* How much a request has left to do: the safety half of Returns.           *)
(***************************************************************************)

\* Stages that the request may still enter.
CallsLeft ==
    CASE pc = "connect"   -> 5
      [] pc = "handshake" -> 4
      [] pc = "write"     -> 3
      [] pc = "read"      -> 2
      [] pc = "strip"     -> 1
      [] pc = "done"      -> 0

\* ... with the bytes that may still be written and those that may still be read.
Left == CallsLeft + (RequestLen - written) + (replyLen - read)

\* A request is never begun again, and no loop of it turns without a byte
\* (gamestream.c:128-153, 192-204): every call leaves less to do, and nothing the
\* server does adds to that.  What Returns needs of the server beyond this is
\* that it ends the connection.
EveryCallCounts ==
    [][/\ Left' \in Nat /\ Left' <= Left
       /\ Client => Left' < Left]_vars

\* What is left is a number.
LEMMA LeftType == ASSUME IInv PROVE Left \in Nat
  <1>1. CallsLeft \in Nat
    BY DEF CallsLeft, IInv, TypeOK, Places
  <1>2. RequestLen - written \in Nat
    BY RequestAssumption DEF IInv, TypeOK
  <1>3. replyLen - read \in Nat
    BY DEF IInv, TypeOK, KeptInv
  <1> QED
    BY <1>1, <1>2, <1>3 DEF Left

\* However the server answers, and whatever fails, a request is at most
\* 5 + RequestLen + MaxReply calls long (gamestream.c:66-212).
THEOREM RequestIsBounded == Spec => EveryCallCounts
  <1>1. ASSUME IInv, Client PROVE Left' < Left
    <2> USE <1>1, RequestAssumption
        DEF Left, CallsLeft, IInv, TypeOK, KeptInv, response, server, Fail
    <2>1. CASE Connect
      BY <2>1 DEF Connect
    <2>2. CASE Handshake
      BY <2>2 DEF Handshake
    <2>3. CASE WriteTls
      BY <2>3 DEF WriteTls, WriteFailed
    <2>4. CASE WritePlain
      BY <2>4 DEF WritePlain, WrittenInv
    <2>5. CASE Read
      BY <2>5 DEF Read
    <2>6. CASE ReadEnd
      BY <2>6 DEF ReadEnd
    <2>7. CASE Strip
      BY <2>7 DEF Strip
    <2> QED
      BY <2>1, <2>2, <2>3, <2>4, <2>5, <2>6, <2>7 DEF Client
  <1>2. ASSUME IInv, Reply \/ ClosePeer \/ Returned PROVE Left' = Left
    BY <1>2 DEF Reply, ClosePeer, Returned, vars, Left, CallsLeft, response,
       server
  <1>3. IInv => Left \in Nat
    BY LeftType
  <1>4. IInv /\ Left \in Nat /\ (Left \in Nat)' /\ [Next]_vars =>
          [/\ Left' \in Nat /\ Left' <= Left
           /\ Client => Left' < Left]_vars
    <2>1. ASSUME IInv, Left \in Nat, Left' \in Nat, Next
          PROVE  /\ Left' \in Nat /\ Left' <= Left
                 /\ Client => Left' < Left
      <3>1. CASE Client
        BY <1>1, <2>1, <3>1
      <3>2. CASE ~Client
        BY <1>2, <2>1, <3>2 DEF Next
      <3> QED
        BY <3>1, <3>2
    <2> QED
      BY <2>1
  <1> QED
    BY <1>3, <1>4, Inductive, PTL DEF Spec, EveryCallCounts

==============================================================================
