---------------------------- MODULE MCTcpClient ----------------------------
(* TcpClient on small instances: how the runs use a client.                *)
EXTENDS TcpClient

\* Code on the loop thread, with retry: it may stop, connect again, disconnect.
OnLoop == [retry |-> TRUE, caller |-> "loop", calls |-> {"connect", "stop", "disconnect"},
           careful |-> TRUE]

\* ... and destroy the client, with and without a connection.
Destroying == [OnLoop EXCEPT !.calls = {"stop", "destroy"}]

\* Another thread, without retry: it may stop and disconnect.
OtherThread == [retry |-> FALSE, caller |-> "other", calls |-> {"stop", "disconnect"},
                careful |-> TRUE]

SoundSetups == {OnLoop, Destroying, OtherThread}

\* Another thread stops a client that reconnects.
RetryOtherThread == [OtherThread EXCEPT !.retry = TRUE]

LostStopSetups == {RetryOtherThread}

\* Another thread stops a client and connects it again.
ConnectAgainSetups == {[OtherThread EXCEPT !.calls = {"connect", "stop"}]}

\* Code on the loop thread stops a client and connects it again, in a timer that expired
\* together with the retry timer, too.
CarelessSetups == {[OnLoop EXCEPT !.calls = {"connect", "stop"}, !.careful = FALSE]}

\* Code on the loop thread destroys a client whenever it likes.
DestroyAnytimeSetups == {[Destroying EXCEPT !.careful = FALSE]}
=============================================================================
