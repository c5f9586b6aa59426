----------------------------- MODULE MCLinkSync -----------------------------
(* One Link, one request of each kind at most, and any two troubles: a     *)
(* request, a failed call, a crash or shutdown, a token revoked.           *)
EXTENDS LinkSync
=============================================================================
