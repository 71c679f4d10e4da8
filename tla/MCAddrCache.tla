---------------------------- MODULE MCAddrCache ----------------------------
(***************************************************************************)
(* Bounds for checking AddrCache: two workers and three mappings, so that  *)
(* one of a path may wait for its deleter while the next is read.  A       *)
(* header takes one unit of a buffer of three.  The file p1 has six units  *)
(* and takes a first, a middle and a last part; then it shrinks to one     *)
(* unit, so that a session may expect less or more than the mapping it     *)
(* shares has.  The file p2 has three units and two parts, so that the     *)
(* size of one request may be taken for the size of another.  MaxOffset    *)
(* lets a response that does not start with the offset zero find part of   *)
(* its file counted already, or more than all of it (the rest wraps).      *)
(***************************************************************************)
EXTENDS AddrCache, TLC

CONSTANTS p1, p2

Sizes == p1 :> <<6, 1>> @@ p2 :> <<3>>
=============================================================================
