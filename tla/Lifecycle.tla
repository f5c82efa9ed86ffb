------------------------------ MODULE Lifecycle ------------------------------
(***************************************************************************)
(* What one launch of moonlight-ps5 promises to its user and to its server, *)
(* whatever its threads do: it prepares; it may have the server launch the  *)
(* app; it may stream; it asks the server once to cancel the app, after the *)
(* stream is down and nothing reads the pad any more; it lets go of the     *)
(* pad.  Session.tla implements this.                                       *)
(***************************************************************************)

VARIABLES
    stage,      \* how far the launch has come
    link,       \* the stream is up
    feeding,    \* something forwards the pad to the server
    pad,        \* the pad is held
    app,        \* an app runs on the server
    asked       \* the server was asked to cancel it

vars == << stage, link, feeding, pad, app, asked >>

\* An app may be left over from a launch that died.
Init ==
    /\ stage = "preparing"
    /\ link = FALSE /\ feeding = FALSE /\ pad = FALSE
    /\ app \in BOOLEAN
    /\ asked = FALSE

TakePad ==
    /\ stage = "preparing"
    /\ pad' = TRUE
    /\ UNCHANGED << stage, link, feeding, app, asked >>

\* Nothing was launched: the launch may end, and leaves the server alone.
GiveUp ==
    /\ stage = "preparing"
    /\ stage' = "over"
    /\ UNCHANGED << link, feeding, pad, app, asked >>

\* The server is asked for the app, and need not comply.
LaunchApp ==
    /\ stage = "preparing"
    /\ stage' = "launched"
    /\ app' \in { app, TRUE }
    /\ UNCHANGED << link, feeding, pad, asked >>

\* Only an app can be streamed.
StartStream ==
    /\ stage = "launched" /\ app
    /\ stage' = "streaming"
    /\ link' = TRUE
    /\ UNCHANGED << feeding, pad, app, asked >>

StartFeeding ==
    /\ stage = "streaming" /\ link
    /\ feeding' = TRUE
    /\ UNCHANGED << stage, link, pad, app, asked >>

StopFeeding ==
    /\ feeding
    /\ feeding' = FALSE
    /\ UNCHANGED << stage, link, pad, app, asked >>

StopStream ==
    /\ stage = "streaming"
    /\ link' = FALSE
    /\ UNCHANGED << stage, feeding, pad, app, asked >>

\* Leaving begins when nothing streams and nothing feeds.
Leave ==
    /\ stage \in { "launched", "streaming" }
    /\ ~link /\ ~feeding
    /\ stage' = "leaving"
    /\ UNCHANGED << link, feeding, pad, app, asked >>

\* One request to cancel, which may fail.
Cancel ==
    /\ stage = "leaving" /\ ~asked
    /\ asked' = TRUE
    /\ app' \in { app, FALSE }
    /\ UNCHANGED << stage, link, feeding, pad >>

\* The end, with the pad let go.
Finish ==
    /\ stage = "leaving" /\ asked
    /\ stage' = "over"
    /\ pad' = FALSE
    /\ UNCHANGED << link, feeding, app, asked >>

\* The process dies or hangs; a request it was in may still be acted on.
Die ==
    /\ stage \in { "preparing", "streaming", "leaving" }
    /\ stage' = "dead"
    /\ \/ stage = "preparing" /\ app' \in { app, TRUE }
       \/ stage = "leaving" /\ ~asked /\ app' \in { app, FALSE }
       \/ UNCHANGED app
    /\ UNCHANGED << link, feeding, pad, asked >>

Next == \/ TakePad \/ GiveUp \/ LaunchApp \/ StartStream \/ StartFeeding
        \/ StopFeeding \/ StopStream \/ Leave \/ Cancel \/ Finish \/ Die

Spec == Init /\ [][Next]_vars

(***************************************************************************)
(* Properties: what the promise amounts to.                                 *)
(***************************************************************************)

\* Once a launch is leaving nothing streams and nothing feeds any more, and
\* only then has the server been asked to cancel (main.c:255-260).
Quiet ==
    /\ stage \in { "preparing", "launched", "leaving", "over" } =>
         ~link /\ ~feeding
    /\ asked => stage \in { "leaving", "over", "dead" }

\* An app never ends under a stream or under somebody's hands (main.c:255-258).
EndsQuietly == [][app /\ ~app' => ~link /\ ~feeding]_vars

==============================================================================
