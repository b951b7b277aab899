------------------------------ MODULE NatsGroup ------------------------------
(***************************************************************************)
(* A NATS consumer of either shape on one stream and one Inbox: Run pulls  *)
(* single messages, or batches when the consumer was built with a batch    *)
(* handler.                                                                *)
(***************************************************************************)
EXTENDS NatsConsumer, NatsBatch

groupVars == <<shared, worker, batchWorker>>

GroupInit ==
    /\ SharedInit /\ WorkerInit /\ BatchInit

GroupNext ==
    \/ Outside /\ UNCHANGED <<worker, batchWorker>>
    \/ setup.shape = "single" /\ ConsumerNext /\ UNCHANGED batchWorker
    \/ setup.shape = "batch" /\ BatchNext /\ UNCHANGED worker

GroupSpec == GroupInit /\ [][GroupNext]_groupVars

-----------------------------------------------------------------------------
(* Fairness of the consumer loops.  The broker delivers what is not        *)
(* acknowledged again and again (MaxDeliver is -1); the store answers and  *)
(* the acknowledgement arrives if a message is tried often enough; a       *)
(* handler that is run often enough returns something other than a         *)
(* deferral, and a batch handler keeps to its contract.  Everything else a *)
(* worker does, it does without waiting for others.                        *)

Either(single, batch) ==
    \/ setup.shape = "single" /\ single /\ UNCHANGED batchWorker
    \/ setup.shape = "batch" /\ batch /\ UNCHANGED worker

Delivered(i) ==
    i \in DOMAIN stream /\ \E w \in Workers : Either(Receive(w, i), FetchFirst(w, i))

Holds(w, i) == \E d \in Deliveries(w) : held[w][d].msg = i

BatchAnswered(w) ==
    /\ phase[w] = "process"
    /\ \E max \in Limits : \E kinds \in [DOMAIN BatchItems(w) -> FailureKinds \ {"defer"}] :
          BatchProcessed(w, max, kinds)

Handled(i) ==
    i \in DOMAIN stream /\ \E w \in Workers :
        Either(msg[w] = i /\ Answered(w), Holds(w, i) /\ BatchAnswered(w))

AckArrives(i) ==
    /\ i \in DOMAIN stream
    /\ \E w \in Workers :
          Either(msg[w] = i /\ Ack(w), \E d \in Deliveries(w) : held[w][d].msg = i /\ BatchAck(w, d))
    /\ acked' # acked

SingleStep(w) ==
    \/ Begin(w) \/ Ack(w) \/ Nak(w) \/ PublishRecord(w) \/ AckRecord(w)
    \/ HandoffCancelled(w) \/ ConfirmFails(w) \/ PreparationFails(w)

BatchStep(w) ==
    \/ FillEnds(w) \/ Classify(w) \/ SettleCancelled(w) \/ Finished(w)
    \/ \E d \in Deliveries(w) :
          \/ BatchAck(w, d) \/ BatchNak(w, d) \/ BatchPublishRecord(w, d) \/ BatchAckRecord(w, d)
          \/ BatchPreparationFails(w, d) \/ BatchHandoffCancelled(w, d) \/ BatchConfirmFails(w, d)

FairSpec ==
    /\ GroupSpec
    /\ \A i \in 1 .. MaxMsgs : SF_groupVars(Delivered(i)) /\ SF_groupVars(Handled(i)) /\ SF_groupVars(AckArrives(i))
    /\ \A w \in Workers : WF_groupVars(Either(SingleStep(w), BatchStep(w)))
    /\ WF_groupVars(Either(Restart, BatchRestart))
    /\ \A fp \in Fps : WF_groupVars(Mature(fp) /\ UNCHANGED <<worker, batchWorker>>)
=============================================================================
