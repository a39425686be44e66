--------------------------- MODULE MCWeezeventImport ---------------------------
EXTENDS WeezeventImport

CONSTANTS x, y, chunk, pass

\* One sale is there from the start; the other is made while the job, a pass and
\* the webhooks are at work, and is then updated and withdrawn.  Its creation is
\* not told: an update is handled as one, and may come at any time.
MCDelivery == {<<y, "update">>, <<y, "delete">>}
MCDatesOf == [w \in {chunk} |-> {y}]
MCCaller == {<<y, "update">>}
==============================================================================
