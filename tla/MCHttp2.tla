------------------------------- MODULE MCHttp2 ------------------------------
(* Small instances of Http2 for TLC: the first request uploads, the second *)
(* downloads.                                                              *)
EXTENDS Http2

UploadThenDownload == <<3, 0>>
AnswerThenDownload == <<1, 3>>

ShortUpload == <<2, 0>>
ShortDownload == <<1, 2>>
=============================================================================
