---------------------------- MODULE MCWebSocket -----------------------------
(* WebSocketClient for TLC: a buffer of four bytes, a caller that offers    *)
(* two, messages of one byte, as long as the buffer and longer, and        *)
(* servers that agree, refuse, say nothing, say too much, and that         *)
(* send a message at once.                                                  *)
EXTENDS WebSocketClient

LengthsDef == {1, 4, 5}

Agrees  == <<"line", "nl", "right", "nl", "nl">>
Refuses == <<"wrong", "nl", "right", "nl", "nl", "frame">>
Silent  == <<"line", "nl", "nl">>
Endless == <<"right", "nl", "line", "nl", "line", "nl", "line", "nl", "nl">>
ResponsesDef == {Agrees, Append(Agrees, "frame"), Refuses, Silent, Endless}
=============================================================================
