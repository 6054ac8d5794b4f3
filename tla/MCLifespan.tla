------------------------------- MODULE MCLifespan ------------------------------
(* One readiness request at a time: probes share nothing they write.          *)
EXTENDS Lifespan
CONSTANT p1
MCProbe == {p1}
================================================================================
