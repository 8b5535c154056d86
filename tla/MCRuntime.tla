----------------------------- MODULE MCRuntime ------------------------------
(* Small instances of Runtime for TLC.                                     *)
EXTENDS Runtime, TLC

CONSTANTS t1, t2, r, k, e1, e2, e3

Opt(product, mode, shd, leg) ==
    [product |-> product, mode |-> mode, shared |-> shd, legacy |-> leg]

\* An external-token and an access-key RTC Client, two Cloud Clients that share
\* the storage runtime, and one with another cache directory and app_id.
MixedOptions ==
    r :> Opt("rtc", "external_token", "A", "x")
    @@ k :> Opt("rtc", "access_key", "A", "x")
    @@ e1 :> Opt("storage", "external_token", "A", "x")
    @@ e2 :> Opt("storage", "external_token", "A", "x")
    @@ e3 :> Opt("storage", "external_token", "B", "y")

TwoThreads == {t1, t2}
Clients    == {r, k, e1, e2, e3}
Symm       == Permutations(TwoThreads) \cup Permutations({e1, e2})
=============================================================================
