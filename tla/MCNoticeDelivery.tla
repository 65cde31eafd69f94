-------------------------- MODULE MCNoticeDelivery --------------------------
(* Small instances of NoticeDelivery for TLC.                              *)
EXTENDS NoticeDelivery, TLC

CONSTANTS r1, r2, n1, n2
=============================================================================
