---------------------------- MODULE MCChatStream ----------------------------
(* Four bodies: frames with CRLF and LF line ends, a blank and none after  *)
(* the colon; two-byte characters in a frame, next to a line end and in a  *)
(* comment; empty lines, and a last line that has no end.                  *)
EXTENDS ChatStream

Bodies ==
    {<<"data", "sp", "c", "hi", "lo", "nl", "nl", "data", "c", "nl">>,
     <<"other", "hi", "lo", "cr", "nl", "data", "hi", "lo", "hi", "lo", "cr", "nl">>,
     <<"data", "c", "cr", "nl", "cr", "nl", "other", "nl", "data", "sp", "hi", "lo">>,
     <<"c", "nl", "data", "sp", "nl", "data", "c", "c", "cr">>}
=============================================================================
