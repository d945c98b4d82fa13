---------------------------- MODULE MCProxyFailover ----------------------------
(* Instances of ProxyFailover: two texts of one config (a1 and a2 share    *)
(* their key), another one, and what a refresh may rank.                   *)
EXTENDS ProxyFailover, TLC
CONSTANTS a1, a2, b1, k1, k2

MCKeyOf == a1 :> k1 @@ a2 :> k1 @@ b1 :> k2
MCLists == {<<>>, <<a1>>, <<a1, b1>>, <<b1, a2>>}
================================================================================
