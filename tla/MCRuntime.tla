------------------------------ MODULE MCRuntime ------------------------------
(* Values for the constants of Runtime that a .cfg cannot write.            *)
EXTENDS Runtime

Answer(i, a, b, o) == [intervened |-> i, anonymized |-> a, blocked |-> b, output |-> o]
Clean == Answer(FALSE, FALSE, FALSE, FALSE)
Anonymised == Answer(TRUE, TRUE, FALSE, TRUE)
Mixed == Answer(TRUE, TRUE, TRUE, TRUE)

AllAnswers == {Clean} \union {Answer(TRUE, a, b, o) : a, b, o \in BOOLEAN}
SomeAnswers == {Clean, Anonymised, Mixed}

AllEnvs == [guard : {"off", "on", "invalid"}, memory : BOOLEAN, bucket : BOOLEAN]
\* Every feature on, and the Guardrail left out.
BusyEnvs == {[guard |-> g, memory |-> TRUE, bucket |-> TRUE] : g \in {"off", "on"}}

AllPayloads == [message : Messages, binding : Bindings]
GoodPayloads == [message : {"raw", "blank"}, binding : {"bound"}]
=============================================================================
