----------------------------- MODULE HttpRequest -----------------------------
(***************************************************************************)
(* One request of gamestream.c: https_get (66-174) when tls, http_get       *)
(* (177-212) otherwise, against a server that reads the request, answers    *)
(* with a stream of bytes and closes the connection, at any moment.         *)
(*                                                                          *)
(* The bytes of the reply are numbered from 1; what is in them matters only *)
(* in that the first HeaderLen are the headers.                             *)
(*                                                                          *)
(* External: mbedTLS, the network and the server.                           *)
(***************************************************************************)
EXTENDS Integers

CONSTANTS
    RequestLen, \* bytes of the request
    HeaderLen,  \* bytes of the reply's headers, the empty line included
    MaxReply,   \* bound: bytes of the reply
    ChunkMax,   \* sizeof(buf) - 1: bytes read at once
    RespSize    \* resp_sz: the caller's buffer

ASSUME RequestAssumption ==
    /\ RequestLen \in Nat \ { 0 }
    /\ HeaderLen \in Nat /\ MaxReply \in Nat
    /\ ChunkMax \in Nat \ { 0 }
    /\ RespSize \in Nat \ { 0 }

VARIABLES
    tls,        \* https_get or http_get
    pc,         \* where the function is
    ret,        \* what it returns
    written,    \* bytes of the request written
    read,       \* bytes of the reply read from the connection
    total,      \* bytes of the reply in resp_body
    kept,       \* which bytes of the reply resp_body holds, in their order
    replyLen,   \* bytes the server has to say
    replied,    \* bytes it has sent
    peer        \* the server's end of the connection

vars == << tls, pc, ret, written, read, total, kept, replyLen, replied, peer >>
server == << replyLen, replied, peer >>
response == << read, total, kept >>

Init ==
    /\ tls \in BOOLEAN
    /\ pc = "connect" /\ ret = -1
    /\ written = 0 /\ read = 0 /\ total = 0 /\ kept = {}
    /\ replyLen \in 0 .. MaxReply /\ replied = 0 /\ peer = "open"

(***************************************************************************)
(* The client.                                                              *)
(***************************************************************************)

Fail == pc' = "done" /\ ret' = -1

\* mbedtls_net_connect, and for https_get the setup that follows it.
Connect ==
    /\ pc = "connect"
    /\ \/ pc' = (IF tls THEN "handshake" ELSE "write") /\ UNCHANGED ret
       \/ Fail
    /\ UNCHANGED << tls, written, response, server >>

Handshake ==
    /\ pc = "handshake"
    /\ \/ pc' = "write" /\ UNCHANGED ret
       \/ Fail
    /\ UNCHANGED << tls, written, response, server >>

\* Mutant: a failed write leaves ret as it is and goes on to the reply.
WriteFailed_Ignored == pc' = "read" /\ ret' = ret

\* A failed write ends the request.
WriteFailed == Fail

\* https_get writes until the whole request is written.
WriteTls ==
    /\ pc = "write" /\ tls
    /\ \/ \E n \in 1 .. RequestLen - written :
            /\ written' = written + n
            /\ pc' = IF written' = RequestLen THEN "read" ELSE "write"
            /\ UNCHANGED ret
       \/ WriteFailed /\ UNCHANGED written
    /\ UNCHANGED << tls, response, server >>

\* http_get sends once and looks at nothing.
WritePlain ==
    /\ pc = "write" /\ ~tls
    /\ written' \in 0 .. RequestLen
    /\ pc' = "read"
    /\ UNCHANGED << tls, ret, response, server >>

\* Mutant: the test forgets what the buffer holds already.
Fits_ChunkOnly(n) == n < RespSize - 1

\* Mutant: the terminating zero is given no room.
Fits_NoZero(n) == total + n <= RespSize

\* Mutant: one byte too many is kept free.
Fits_TwoSpare(n) == total + n < RespSize - 2

\* Room for the chunk and the zero after it.
Fits(n) == total + n < RespSize - 1

\* A chunk is read: kept if it fits, dropped otherwise, and reading goes on.
Read ==
    /\ pc = "read"
    /\ \E n \in 1 .. ChunkMax :
        /\ read + n <= replied
        /\ read' = read + n
        /\ IF Fits(n) THEN /\ total' = total + n
                           /\ kept' = kept \union (read + 1 .. read + n)
                      ELSE UNCHANGED << total, kept >>
    /\ UNCHANGED << tls, pc, ret, written, server >>

\* Mutant: reading stops on an error only, not when the server closes.
EndOfReply_ErrorOnly == peer = "reset"

\* The end of the stream, or an error of the connection.
EndOfReply == \/ peer = "closed" /\ read = replied
              \/ peer = "reset"

\* The end of the reply, and an error, are one: what came is the reply.
ReadEnd ==
    /\ pc = "read"
    /\ EndOfReply
    /\ pc' = "strip"
    /\ UNCHANGED << tls, ret, written, response, server >>

\* Mutant: an error while reading fails the request.
Result_OfRead == IF peer = "reset" THEN -1 ELSE 0

\* What a request that was written returns.
Result == 0

\* The headers are cut off if their end is there.
Strip ==
    /\ pc = "strip"
    /\ kept' = IF 1 .. HeaderLen \subseteq kept
               THEN kept \ (1 .. HeaderLen) ELSE kept
    /\ ret' = Result
    /\ pc' = "done"
    /\ UNCHANGED << tls, written, read, total, server >>

(***************************************************************************)
(* The server: it answers a request it has whole, and may close or reset    *)
(* the connection at any time.                                              *)
(***************************************************************************)

Reply ==
    /\ peer = "open"
    /\ written = RequestLen
    /\ replied < replyLen
    /\ replied' \in replied + 1 .. replyLen
    /\ UNCHANGED << tls, pc, ret, written, response, replyLen, peer >>

ClosePeer ==
    /\ peer = "open"
    /\ pc \in { "write", "read" }
    /\ peer' \in { "closed", "reset" }
    /\ UNCHANGED << tls, pc, ret, written, response, replyLen, replied >>

Returned ==
    /\ pc = "done"
    /\ UNCHANGED vars

Client == \/ Connect \/ Handshake \/ WriteTls \/ WritePlain \/ Read
          \/ ReadEnd \/ Strip

Next == Client \/ Reply \/ ClosePeer \/ Returned

\* The client runs; the server closes every connection it was asked to close
\* ("Connection: close") sooner or later.
Fairness == WF_vars(Client) /\ WF_vars(ClosePeer)

Spec == Init /\ [][Next]_vars /\ Fairness

(***************************************************************************)
(* Properties.                                                              *)
(***************************************************************************)

Places == { "connect", "handshake", "write", "read", "strip", "done" }

TypeOK ==
    /\ tls \in BOOLEAN
    /\ pc \in Places
    /\ ret \in { -1, 0 }
    /\ written \in 0 .. RequestLen
    /\ read \in Nat /\ total \in Nat
    /\ kept \subseteq Nat
    /\ replyLen \in Nat /\ replied \in Nat
    /\ peer \in { "open", "closed", "reset" }

\* However the reply is cut into chunks, it and its terminating zero
\* (gamestream.c:155, 206) stay within the caller's buffer.
WithinBuffer == total < RespSize

\* A reply that fits is kept whole, without a gap, whatever the chunks; one
\* that does not fit loses chunks in its middle.
WholeWhenFits ==
    replyLen + 1 < RespSize /\ pc \in { "read", "strip" } => kept = 1 .. read

\* What https_get returns tells its caller whether the request was handed to
\* TLS whole.  A launch that failed was not, so it launched nothing
\* (gamestream.c:627-630); one that did not fail may still be lost on its way.
\* http_get tells nothing.
ReturnTellsWritten ==
    tls /\ pc = "done" => (ret = 0 <=> written = RequestLen)

\* All of the function's steps together are one request that fails unwritten, or
\* succeeds with what came before the end (gamestream.c:66-212).
Atomic == INSTANCE Request WITH
    status <- IF pc # "done" THEN "running" ELSE IF ret = 0 THEN "ok" ELSE "failed",
    whole  <- written = RequestLen,
    sent   <- replied,
    body   <- IF pc = "done" THEN kept ELSE {}

ImplementsRequest == Atomic!Spec

\* A request to a server that closes its connections returns.
Returns == <>(pc = "done")

==============================================================================
