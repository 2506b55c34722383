------------------------------ MODULE MCRealtime -----------------------------
(* One subscriber, one caller and up to three commands of one or two events, *)
(* read two at a time.  A caller may fail, retry and reuse ids.              *)
EXTENDS Realtime

CONSTANTS p1, s1, i1, i2, i3, b1
=============================================================================
