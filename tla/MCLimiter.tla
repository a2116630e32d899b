----------------------------- MODULE MCLimiter -----------------------------
(* Two clients, two concurrent handlers. *)
EXTENDS RateLimiter
=============================================================================
