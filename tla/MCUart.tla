------------------------------- MODULE MCUart -------------------------------
(* A terminate string with a repeated letter, as "!" in "#!exit!"; polls two *)
(* or three cycles apart, and a transmission that takes longer than that.    *)
EXTENDS LnxUart

MCChar == {"hash", "bang", "other"}
MCExit == <<"hash", "bang", "bang">>
=============================================================================
