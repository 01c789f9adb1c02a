-------------------------- MODULE HookEmitOrdering --------------------------
(***************************************************************************)
(* The drainer with a history variable, for what it says about order: the  *)
(* batch that the cycle listed.                                            *)
(***************************************************************************)
EXTENDS HookEmitDelivery

VARIABLE listed  \* what list_pending returned this cycle

orderVars == <<vars, listed>>

ListsNow == pc \in {"bound", "evict", "evictUnlink"} /\ pc' = "publish"

OrderInit == Init /\ listed = {}

OrderNext ==
  /\ Next
  /\ listed' = IF ListsNow THEN batch'
               ELSE IF pc' \in {"off", "check"} THEN {} ELSE listed

OrderSpec == OrderInit /\ [][OrderNext]_orderVars

\* The history takes no step of its own, so fairness is that of FairSpec.
FairOrderSpec == OrderSpec /\ Fairness

\* The step's publish of r counted as a success.
PublishesNow(r) ==
  \/ pc = "publish" /\ pc' = "ack" /\ cur' = r
  \/ pc = "probe" /\ pc' = "probeAck" /\ probes' = {r}

Settled(s) == s \in delivered \cup LossReported

(***************************************************************************)
(* A record goes out ahead of an older one of its batch only if that one   *)
(* is of a class already proven refused, or on the stand-down probe of a   *)
(* head at its threshold, and then never ahead of one of its own class     *)
(* ("stops at the first failure so ordering is preserved").                *)
(***************************************************************************)
OrderKept ==
  [][\A r \in Records, s \in listed :
       PublishesNow(r) /\ s < r /\ place[s] = "journal" /\ ~Settled(s)
         => \/ ProvenRefused(s)
            \/ /\ pc = "probe"
               /\ ProvenRefused(cur) \/ counts[cur] >= QuarantineAfter
               /\ etype[s] # etype[r]]_orderVars

============================================================================
