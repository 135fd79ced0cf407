-------------------------- MODULE ReliableDelivery --------------------------
(***************************************************************************)
(* What the engine promises for an event it has accepted: numbered         *)
(* attempts at each destination the event is scoped to, without gaps; a    *)
(* destination given up only at max_retries; the event closed only when    *)
(* every one of them has accepted it.  Attempts may repeat a number and go *)
(* on after a success: delivery is at least once.                          *)
(***************************************************************************)
EXTENDS Naturals

CONSTANTS Events, Destinations, MaxRetries, Matched

VARIABLES
  tried,      \* triples of event, destination and attempt number
  delivered,  \* pairs some attempt delivered
  abandoned,  \* pairs some attempt dead-lettered
  closed      \* events reported as delivered everywhere

promiseVars == <<tried, delivered, abandoned, closed>>

Init == tried = {} /\ delivered = {} /\ abandoned = {} /\ closed = {}

(* The numbers an attempt may bear: every smaller one has been used.       *)
Numbers(e, d) ==
  {n \in {1} \cup {t[3] + 1 : t \in tried} :
     \A m \in 1..(n - 1) : <<e, d, m>> \in tried}

Succeed(e, d, n) ==
  /\ tried' = tried \cup {<<e, d, n>>}
  /\ delivered' = delivered \cup {<<e, d>>}
  /\ UNCHANGED <<abandoned, closed>>

Fail(e, d, n) ==
  /\ n < MaxRetries[d]
  /\ tried' = tried \cup {<<e, d, n>>}
  /\ UNCHANGED <<delivered, abandoned, closed>>

GiveUp(e, d, n) ==
  /\ n >= MaxRetries[d]
  /\ tried' = tried \cup {<<e, d, n>>}
  /\ abandoned' = abandoned \cup {<<e, d>>}
  /\ UNCHANGED <<delivered, closed>>

Close(e) ==
  /\ Matched[e] # {}
  /\ \A d \in Matched[e] : <<e, d>> \in delivered
  /\ closed' = closed \cup {e}
  /\ UNCHANGED <<tried, delivered, abandoned>>

Next ==
  \E e \in Events :
    \/ \E d \in Matched[e] : \E n \in Numbers(e, d) :
         Succeed(e, d, n) \/ Fail(e, d, n) \/ GiveUp(e, d, n)
    \/ Close(e)

Spec == Init /\ [][Next]_promiseVars

=============================================================================
