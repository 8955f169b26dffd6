------------------------------- MODULE MCSaga -------------------------------
EXTENDS Saga

\* Everything a provider may answer, transport errors included.
AnyOutcome == [s \in SagaSteps |-> Results]

\* A provider that rejects authorizations.
Rejecting == [s \in SagaSteps |-> IF s = "authorize" THEN {"failed"} ELSE {"succeeded"}]

AllSucceed == [s \in SagaSteps |-> {"succeeded"}]
=============================================================================
