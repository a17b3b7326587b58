--------------------------- MODULE MCRateLimiter ---------------------------
(***************************************************************************)
(* RateLimiter on a small instance: one endpoint, since endpoints share    *)
(* nothing, and requests that differ in which header identifies them.      *)
(***************************************************************************)
EXTENDS RateLimiter, TLC

CONSTANTS e1, t1, a1

MCLimit == e1 :> 2

Request(T, F, R) == [token |-> T, forwarded |-> F, realIp |-> R]

MCRequests == {Request({t1}, {}, {}), Request({t1}, {a1}, {}),
               Request({}, {}, {a1}), Request({}, {}, {})}
=============================================================================
