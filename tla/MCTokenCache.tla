---------------------------- MODULE MCTokenCache ----------------------------
(* Two calls of one worker, so that either may find what the other left in  *)
(* Redis or in the worker's dictionary.  The clock counts minutes: a token  *)
(* lives one of them or two, of which two may be stated or assumed, and is  *)
(* cached for one: entries end, tokens expire and one replaces the other    *)
(* within the time that passes, and Redis fails too late or in time.        *)
EXTENDS TokenCache, TLC

CONSTANTS c1, c2, w1

MCWorkerOf == [c \in Calls |-> w1]
CallsAlike == Permutations(Calls)
=============================================================================
