------------------------- MODULE MC_SamplingEngine -------------------------
(* Small instances of SamplingEngine: two variables on one bus with two edits,  *)
(* or three variables on two buses; two samples, queues of length one.       *)
EXTENDS SamplingEngine

CONSTANTS sdi12, i2c, sd, mqtt

Def(bus, enabled, log, kind) ==
    [bus |-> bus, enabled |-> enabled, sample |-> 1, log |-> log, kind |-> kind]

EditDefs == {Def(sdi12, TRUE, 1, "x"), Def(sdi12, TRUE, 1, "y"), Def(sdi12, FALSE, 1, "x")}
OneVar == (1 :> Def(sdi12, TRUE, 1, "x"))

\* Files that repeat the generation of one edit, and one with a generation of its own;
\* one redefines variable 1, the other replaces it by variable 2.
SomeFiles ==
    {[generation |-> 0, vars |-> (1 :> Def(sdi12, TRUE, 1, "y"))],
     [generation |-> 2, vars |-> (2 :> Def(sdi12, TRUE, 1, "x"))]}

BusDefs == {Def(sdi12, TRUE, 1, "x"), Def(i2c, TRUE, 1, "x")}
ThreeVars ==
    (1 :> Def(i2c, TRUE, 1, "x")) @@ [id \in {2, 3} |-> Def(sdi12, TRUE, 1, "x")]
============================================================================
