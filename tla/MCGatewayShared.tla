--------------------------- MODULE MCGatewayShared ---------------------------
(* Two roles on one endpoint, each with up to two dispatch threads: a runs on *)
(* generator, and its handler enqueues t2 on analyzer while from_yaml may     *)
(* still be enqueuing t1 there.  An all_done handler waits for a and t.*.     *)
EXTENDS GatewayRuntime

CONSTANTS a, t1, t2, generator, analyzer, url, both, s1, s2

MCJobs == {a, t1, t2}
MCWorkerOf == (a :> generator @@ t1 :> analyzer @@ t2 :> analyzer)
MCEndpointOf == (generator :> url @@ analyzer :> url)
MCPriority == (a :> "low" @@ t1 :> "high" @@ t2 :> "normal")
MCRetry == (a :> 1 @@ t1 :> 0 @@ t2 :> 0)
MCInitial == <<a, t1>>
Nothing == [e \in {"done", "failed", "cancelled"} |-> <<>>]
MCThen == [j \in MCJobs |-> IF j = a THEN [Nothing EXCEPT !["done"] = <<t2>>] ELSE Nothing]
MCSubOrder == <<both>>
MCWaitJobs == (both :> {a})
MCWaitFamilies == (both :> {{t1, t2}})
MCSubThen == (both :> [j \in MCJobs |-> <<>>])

\* A slot is only the name of a dispatch thread.
SlotSymmetry == Permutations({s1, s2})
=============================================================================
