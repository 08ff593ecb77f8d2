---------------------------- MODULE MCGatewayFlow ----------------------------
(* Workflows in the shape of docs/WORKFLOW_V3_SPEC_DRAFT.md: the handler of a *)
(* fans out over two entities t1 and t2.                                      *)
EXTENDS GatewayRuntime

CONSTANTS a, t1, t2, t3, t4, generator, analyzer, orphan, url, first, family

MCPriority == [j \in Jobs |-> "normal"]
MCRetry == [j \in Jobs |-> IF j = a THEN 1 ELSE 0]
MCInitial == <<a>>
Nothing == [e \in {"done", "failed", "cancelled"} |-> <<>>]
MCThen == [j \in Jobs |-> CASE j = a  -> [Nothing EXCEPT !["done"] = <<t1, t2>>]
                            [] j = t1 -> [Nothing EXCEPT !["done"] = <<t3>>]
                            [] OTHER  -> Nothing]

\* One role: all_done handlers on a and on the family t.* (t1, t2), of which the
\* second enqueues t3 or t4, by the suffix of the entity that is done last.
SoloWorkerOf == [j \in Jobs |-> generator]
SoloEndpointOf == (generator :> url)
SoloThen == [MCThen EXCEPT ![t1] = Nothing]
SoloSubOrder == <<first, family>>
SoloWaitJobs == (first :> {a} @@ family :> {})
SoloWaitFamilies == (first :> {} @@ family :> {{t1, t2}})
SoloSubThen == [s \in Subs |-> [j \in Jobs |-> CASE s = family /\ j = t1 -> <<t3>>
                                                 [] s = family /\ j = t2 -> <<t4>>
                                                 [] OTHER -> <<>>]]

\* Two roles on one endpoint, a third without a URL, and no all_done handler.
\* The template of t2 raises in the handler of a, after t1 is enqueued: a goes
\* through the retry path while t1 waits for the endpoint.
NoSubs == <<>>
NoSubsFun == [s \in {} |-> {}]
WideWorkerOf == (a :> generator @@ t1 :> analyzer @@ t2 :> analyzer @@ t3 :> orphan)
WideEndpointOf == (generator :> url @@ analyzer :> url @@ orphan :> None)

\* a and t1 wait on one role; the handler of "a failed" names the template t2
\* that raises.
BusyInitial == <<a, t1>>
BusyWorkerOf == [j \in Jobs |-> generator]
BusyThen == [j \in Jobs |->
               IF j = a THEN [Nothing EXCEPT !["failed"] = <<t2>>] ELSE Nothing]
BusyRetry == [j \in Jobs |-> 0]
=============================================================================
