---------------------------- MODULE MCReqStream ----------------------------
(* Instances of ReqStream for TLC.                                         *)
EXTENDS ReqStream

\* Everything but the first message of a stream may be duplicated.
NotStart == (ReqTypes \cup ResTypes) \ {"req_start"}
AnyType == ReqTypes \cup ResTypes
=============================================================================
