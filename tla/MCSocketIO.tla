----------------------------- MODULE MCSocketIO -----------------------------
(* A small instance of SocketIO. *)
EXTENDS SocketIO

MCIovs == {<<0, 1, 2>>, <<1, 0, 1>>}
MCStreamLen == [client |-> 0, server |-> 3]
=============================================================================
