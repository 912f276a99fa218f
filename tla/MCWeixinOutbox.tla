--------------------------- MODULE MCWeixinOutbox ---------------------------
(* Small instances of WeixinOutbox.                                        *)
EXTENDS WeixinOutbox
=============================================================================
