------------------------------- MODULE Request -------------------------------
(***************************************************************************)
(* A request as the callers of https_get and http_get may think of it, and  *)
(* as Session.tla and Pairing.tla do: it fails, and was never written       *)
(* whole, so that no server has it; or it succeeds, and with TLS was        *)
(* written whole, whether or not the server has it.  What came back may be  *)
(* cut off anywhere, but has no gap when the whole reply fits the buffer.   *)
(* HttpRequest.tla implements this.                                         *)
(***************************************************************************)
EXTENDS Naturals

CONSTANTS
    HeaderLen,  \* bytes of the reply's headers
    RespSize    \* the caller's buffer

VARIABLES
    tls,        \* is it https_get?
    replyLen,   \* bytes the server has to say
    status,     \* "running", "failed" or "ok"
    whole,      \* the request is written whole: the server may have it
    sent,       \* bytes it has said
    body        \* the bytes of the reply that the caller is given

vars == << tls, replyLen, status, whole, sent, body >>

Init ==
    /\ tls \in BOOLEAN
    /\ replyLen \in Nat
    /\ status = "running"
    /\ whole = FALSE /\ sent = 0 /\ body = {}

WriteWhole ==
    /\ status = "running" /\ ~whole
    /\ whole' = TRUE
    /\ UNCHANGED << tls, replyLen, status, sent, body >>

Answer ==
    /\ whole
    /\ sent' > sent /\ sent' <= replyLen
    /\ UNCHANGED << tls, replyLen, status, whole, body >>

Fail ==
    /\ status = "running" /\ ~whole
    /\ status' = "failed"
    /\ UNCHANGED << tls, replyLen, whole, sent, body >>

Headers == 1 .. HeaderLen
WithoutHeaders(bytes) == IF Headers \subseteq bytes THEN bytes \ Headers ELSE bytes

Succeed ==
    /\ status = "running"
    /\ tls => whole
    /\ status' = "ok"
    /\ \E bytes \in SUBSET (1 .. sent) :
         /\ replyLen + 1 < RespSize => \E n \in 0 .. sent : bytes = 1 .. n
         /\ body' = WithoutHeaders(bytes)
    /\ UNCHANGED << tls, replyLen, whole, sent >>

Next == WriteWhole \/ Answer \/ Fail \/ Succeed

Spec == Init /\ [][Next]_vars

==============================================================================
