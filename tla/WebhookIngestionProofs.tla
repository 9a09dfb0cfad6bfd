----------------------- MODULE WebhookIngestionProofs -----------------------
(***************************************************************************)
(* Theorems about WebhookIngestion, for every number of rows, projects,    *)
(* deliveries, requests and commits.                                       *)
(***************************************************************************)
EXTENDS WebhookIngestion, FiniteSetTheorems, WellFoundedInduction, TLAPS

Inserted == {d \in Deliveries : rows[d].status # "ABSENT"}

ReviewPcs == {"upsert", "save", "send", "mark-dispatched"}

PullRequestPcs == ReviewPcs \cup {"resolve"}

(* What a request is doing fits the delivery it handles.                   *)
RequestInv ==
  \A q \in Requests : ~At(q, "idle") =>
    /\ request[q].d \in 1..emitted
    /\ request[q].pc \in PullRequestPcs => Delivery(q) \in PullRequestEvents
    /\ At(q, "sync-installation") => Delivery(q).on \in Installations

EventInv == \A d \in 1..emitted : event[d] \in Events

(* A row belongs to the request that inserted it, and to no other.         *)
OwnerInv ==
  /\ created = Cardinality(Inserted)
  /\ \A d \in Deliveries : rows[d].status = "ABSENT" => rows[d].payload = {}
  /\ \A q \in Requests, d \in Deliveries : Owns(q, d) =>
       /\ rows[d].status # "ABSENT"
       /\ \A p \in Requests : Owns(p, d) => p = q

(* The payload is empty until it is saved, and what is sent afterwards.    *)
PayloadInv ==
  \A q \in Requests, d \in Deliveries : Owns(q, d) =>
    /\ request[q].pc \notin {"send", "mark-dispatched"} => rows[d].payload = {}
    /\ request[q].pc \in {"send", "mark-dispatched"} => rows[d].payload = request[q].events
    /\ request[q].pc \in {"save", "send", "mark-dispatched"} => request[q].events # {}
    /\ At(q, "mark-dispatched") => \A e \in request[q].events : PrKey(e) \in seen

(* Inngest has started what it has accepted, and nothing nobody asked for. *)
InngestInv ==
  /\ \A e \in Reviews : started[e] = IF PrKey(e) \in seen THEN 1 ELSE 0
  /\ \A e \in Reviews : PrKey(e) \in seen => e \in Asked
  /\ \A es \in late : es \subseteq Asked

SweepInv ==
  /\ sweep.events \subseteq Asked
  /\ sweep.pc = "idle" => sweep = Asleep
  /\ sweep.sends \cap sweep.skips = {}
  /\ \A d \in sweep.skips : rows[d].status # "ABSENT"
  /\ \A d \in sweep.sends :
       /\ rows[d].payload # {}
       /\ rows[d].payload \subseteq sweep.events
       /\ sweep.pc = "mark" => \A e \in rows[d].payload : PrKey(e) \in seen

(* Every review asked for, or about to be, has its PullRequest row.        *)
PullRequestInv ==
  /\ \A e \in Asked : pullRequest[e.repo] # None
  /\ \A q \in Requests : \A e \in request[q].events :
       request[q].pc \in ReviewPcs =>
         pullRequest[e.repo] # None \/ (At(q, "upsert") /\ e.repo \in request[q].todo)

DispatchedInv ==
  \A d \in Deliveries : rows[d].status = "DISPATCHED" =>
    rows[d].payload # {} /\ \A e \in rows[d].payload : PrKey(e) \in seen

IInv ==
  /\ TypeOK /\ EventInv /\ RequestInv /\ OwnerInv /\ PayloadInv /\ InngestInv
  /\ SweepInv /\ PullRequestInv /\ DispatchedInv

(* What the sweeper's threshold adds: it never meets a request's row.      *)
TimedInv ==
  /\ \A q \in Requests, d \in Deliveries : Owns(q, d) =>
       rows[d].status = "PENDING" /\ rows[d].at > aged
  /\ \A d \in sweep.sends \cup sweep.skips : rows[d].at <= aged
  /\ \A d \in sweep.sends : rows[d].status \in {"PENDING", "DISPATCHED"}
  /\ \A d \in sweep.skips :
       rows[d].status \in {"PENDING", "FAILED"} /\ rows[d].payload = {}
  /\ \A d \in Deliveries :
       rows[d].status \in {"IGNORED", "FAILED"} => rows[d].payload = {}
-----------------------------------------------------------------------------
LEMMA PrKeyInjective ==
  ASSUME NEW e \in Reviews, NEW f \in Reviews, PrKey(e) = PrKey(f)
  PROVE  e = f
BY DEF PrKey, Reviews

LEMMA Constants ==
  /\ MAX_DELIVERIES \in Nat
  /\ None \notin PullRequests
  /\ IsFiniteSet(Deliveries)
  /\ Cardinality(Deliveries) = MAX_DELIVERIES
<1>1. MAX_DELIVERIES \in Nat /\ None \notin PullRequests
  BY GithubAssumption
<1>2. IsFiniteSet(Deliveries) /\ Cardinality(Deliveries) = MAX_DELIVERIES
  BY <1>1, FS_Interval DEF Deliveries
<1> QED
  BY <1>1, <1>2

(* What ending a request leaves of the others.                             *)
LEMMA EndsFrame ==
  ASSUME IInv, NEW q \in Requests, Ends(q), UNCHANGED <<emitted, event>>
  PROVE  /\ request' \in [Requests -> RequestStates]
         /\ RequestInv'
         /\ \A p \in Requests, d \in Deliveries :
              Owns(p, d)' => p # q /\ Owns(p, d)
         /\ \A p \in Requests : p # q => request'[p] = request[p]
         /\ request'[q] = Idle
<1>1. Idle \in RequestStates
  BY Constants DEF Idle, RequestStates
<1>2. request' \in [Requests -> RequestStates]
  BY <1>1 DEF Ends, IInv, TypeOK
<1>3. \A p \in Requests : p # q => request'[p] = request[p]
  BY DEF Ends, IInv, TypeOK
<1>4. request'[q] = Idle
  BY DEF Ends, IInv, TypeOK
<1>5. RequestInv'
  <2> SUFFICES ASSUME NEW p \in Requests, ~At(p, "idle")'
               PROVE  /\ request'[p].d \in 1..emitted'
                      /\ request'[p].pc \in PullRequestPcs => Delivery(p)' \in PullRequestEvents
                      /\ At(p, "sync-installation")' => Delivery(p)'.on \in Installations
    BY DEF RequestInv
  <2>1. p # q
    BY <1>4 DEF At, Idle
  <2> QED
    BY <1>3, <2>1 DEF IInv, RequestInv, At, Delivery
<1>6. ASSUME NEW p \in Requests, NEW d \in Deliveries, Owns(p, d)'
      PROVE  p # q /\ Owns(p, d)
  <2>1. p # q
    BY <1>4, <1>6 DEF Owns, Idle
  <2> QED
    BY <1>3, <1>6, <2>1 DEF Owns
<1> QED
  BY <1>2, <1>3, <1>4, <1>5, <1>6

(* A request that ends touches nothing else the invariant speaks of.       *)
LEMMA EndsPreserves ==
  ASSUME IInv, NEW q \in Requests, Ends(q),
         UNCHANGED <<connectionVars, githubVars, rowVars, aged, pullRequest,
                     inngestVars, sweep>>
  PROVE  IInv'
<1> USE DEF connectionVars, githubVars, rowVars, inngestVars
<1>1. TypeOK'
  BY EndsFrame DEF IInv, TypeOK, ConnectionsTypeOK, GithubTypeOK
<1>2. EventInv' /\ DispatchedInv' /\ InngestInv' /\ SweepInv'
  BY DEF IInv, EventInv, DispatchedInv, InngestInv, SweepInv, Asked
<1>3. RequestInv'
  BY EndsFrame
<1>4. OwnerInv'
  BY EndsFrame DEF IInv, OwnerInv, Inserted
<1>5. PayloadInv'
  BY EndsFrame DEF IInv, PayloadInv, At
<1>6. PullRequestInv'
  BY EndsFrame DEF IInv, PullRequestInv, Idle, ReviewPcs, Asked, At
<1> QED
  BY <1>1, <1>2, <1>3, <1>4, <1>5, <1>6 DEF IInv

(* What changing the status of one row leaves of the rows.                 *)
LEMMA StatusFrame ==
  ASSUME IInv, NEW d \in Deliveries, NEW s \in {"DISPATCHED", "IGNORED", "FAILED"},
         rows[d].status # "ABSENT", rows' = [rows EXCEPT ![d].status = s]
  PROVE  /\ rows' \in [Deliveries -> WebhookEvents]
         /\ \A c \in Deliveries :
              /\ rows'[c].payload = rows[c].payload
              /\ rows'[c].at = rows[c].at
              /\ rows'[c].status = IF c = d THEN s ELSE rows[c].status
         /\ Asked' = Asked
         /\ Inserted' = Inserted
<1>1. \A c \in Deliveries :
        /\ rows'[c].payload = rows[c].payload
        /\ rows'[c].at = rows[c].at
        /\ rows'[c].status = IF c = d THEN s ELSE rows[c].status
  BY DEF IInv, TypeOK, WebhookEvents
<1>2. rows' \in [Deliveries -> WebhookEvents]
  BY DEF IInv, TypeOK, WebhookEvents
<1>3. Asked' = Asked
  BY <1>1 DEF Asked
<1>4. Inserted' = Inserted
  BY <1>1 DEF Inserted
<1> QED
  BY <1>1, <1>2, <1>3, <1>4

(* Accepting events that were asked for starts each of them once.          *)
LEMMA AcceptFrame ==
  ASSUME IInv, NEW es \in SUBSET Reviews, es \subseteq Asked, Accept(es),
         UNCHANGED rows, late' \subseteq late
  PROVE  /\ InngestInv'
         /\ late' \subseteq SUBSET Reviews
         /\ seen' \subseteq Rows \X Shas
         /\ started' \in [Reviews -> Nat]
         /\ seen \subseteq seen'
         /\ \A e \in es : PrKey(e) \in seen'
<1>1. seen' = seen \cup {PrKey(e) : e \in es}
  BY DEF Accept
<1>2. PICK new \in SUBSET Starts(es) :
        /\ {PrKey(e) : e \in new} = {PrKey(e) : e \in Starts(es)}
        /\ started' = [e \in Reviews |-> started[e] + IF e \in new THEN 1 ELSE 0]
  BY DEF Accept
<1>3. Starts(es) \subseteq new
  <2> SUFFICES ASSUME NEW e \in Starts(es) PROVE e \in new
    OBVIOUS
  <2>1. PICK f \in new : PrKey(f) = PrKey(e)
    BY <1>2
  <2>2. e \in Reviews /\ f \in Reviews
    BY <1>2 DEF Starts
  <2> QED
    BY <2>1, <2>2, PrKeyInjective
<1>4. \A e \in Reviews : PrKey(e) \in {PrKey(f) : f \in es} => e \in es
  BY PrKeyInjective
<1>5. \A e \in Reviews : e \in new <=> e \in es /\ PrKey(e) \notin seen
  BY <1>2, <1>3 DEF Starts
<1>6. started' \in [Reviews -> Nat]
  BY <1>2 DEF IInv, TypeOK
<1>7. \A e \in Reviews : started'[e] = IF PrKey(e) \in seen' THEN 1 ELSE 0
  <2> TAKE e \in Reviews
  <2>1. started[e] = IF PrKey(e) \in seen THEN 1 ELSE 0
    BY DEF IInv, InngestInv
  <2>2. started'[e] = started[e] + IF e \in new THEN 1 ELSE 0
    BY <1>2
  <2>3. PrKey(e) \in seen' <=> PrKey(e) \in seen \/ e \in es
    BY <1>1, <1>4
  <2> QED
    BY <1>5, <2>1, <2>2, <2>3
<1>8. \A e \in Reviews : PrKey(e) \in seen' => e \in Asked
  BY <1>1, <1>4 DEF IInv, InngestInv
<1>9. Asked' = Asked
  BY DEF Asked
<1>10. InngestInv'
  BY <1>7, <1>8, <1>9 DEF IInv, InngestInv, PrKey
<1>11. seen' \subseteq Rows \X Shas
  BY <1>1 DEF IInv, TypeOK, PrKey, Reviews
<1> QED
  BY <1>1, <1>6, <1>10, <1>11 DEF IInv, TypeOK
-----------------------------------------------------------------------------
LEMMA ReceivePreserves ==
  ASSUME IInv, NEW q \in Requests, NEW d \in Deliveries, Receive(q, d)
  PROVE  IInv'
<1> USE DEF Receive, connectionVars, githubVars, rowVars, inngestVars, At
<1>1. TypeOK'
  <2>1. d \in 0..MAX_DELIVERIES
    BY Constants DEF Deliveries
  <2>2. request' \in [Requests -> RequestStates]
    BY <2>1 DEF IInv, TypeOK, RequestStates
  <2> QED
    BY <2>2 DEF IInv, TypeOK, ConnectionsTypeOK, GithubTypeOK
<1>2. EventInv' /\ DispatchedInv'
  BY DEF IInv, EventInv, DispatchedInv
<1>3. RequestInv'
  BY DEF IInv, TypeOK, RequestInv, Idle, PullRequestPcs, Delivery, GithubTypeOK, Deliveries, ReviewPcs
<1>4. OwnerInv'
  BY DEF IInv, TypeOK, OwnerInv, Owns, Idle, Inserted
<1>5. PayloadInv'
  BY DEF IInv, TypeOK, PayloadInv, Owns, Idle
<1>6. InngestInv' /\ SweepInv'
  BY DEF IInv, InngestInv, SweepInv, Asked
<1>7. PullRequestInv'
  BY DEF IInv, TypeOK, PullRequestInv, Idle, ReviewPcs, Asked
<1> QED
  BY <1>1, <1>2, <1>3, <1>4, <1>5, <1>6, <1>7 DEF IInv

LEMMA InsertPendingPreserves ==
  ASSUME IInv, NEW q \in Requests, InsertPending(q)
  PROVE  IInv'
<1> DEFINE d == request[q].d
<1> USE DEF InsertPending, connectionVars, githubVars, rowVars, inngestVars, At
<1>1. d \in Deliveries /\ d \in 1..emitted /\ event[d] \in Events
  BY Constants DEF IInv, TypeOK, GithubTypeOK, RequestInv, EventInv, Deliveries
<1>2. FirstStep(event[d]) \in {"mark-ignored", "mark-failed", "resolve",
                               "sync-installation", "sync-repositories"}
  BY DEF FirstStep
<1>3. /\ FirstStep(event[d]) = "resolve" => event[d] \in PullRequestEvents
      /\ FirstStep(event[d]) = "sync-installation" => event[d].on \in Installations
  BY <1>1 DEF FirstStep, Events, PullRequestEvents, UnreadableEvents, SyncEvents
<1>4. CASE rows[d].status # "ABSENT"
  BY <1>4, EndsPreserves
<1>5. CASE rows[d].status = "ABSENT"
  <2>1. /\ created' = created + 1
        /\ rows' = [rows EXCEPT ![d] =
             [status |-> "PENDING", payload |-> {}, at |-> created + 1]]
        /\ request' = [request EXCEPT ![q] =
             [pc |-> FirstStep(event[d]), d |-> d, todo |-> request[q].todo,
              events |-> request[q].events]]
    BY <1>5 DEF Goto, Becomes, Delivery
  <2>2. created + 1 = Cardinality(Inserted') /\ created + 1 \in 0..MAX_DELIVERIES
    <3>1. Inserted' = Inserted \cup {d} /\ d \notin Inserted
      BY <1>1, <1>5, <2>1 DEF Inserted, IInv, TypeOK
    <3>2. IsFiniteSet(Inserted) /\ IsFiniteSet(Inserted')
      BY Constants, FS_Subset DEF Inserted
    <3>3. Cardinality(Inserted') = Cardinality(Inserted) + 1
      BY <3>1, <3>2, FS_AddElement
    <3>4. Cardinality(Inserted') <= MAX_DELIVERIES
      BY Constants, FS_Subset DEF Inserted
    <3> QED
      BY <3>3, <3>4, Constants DEF IInv, OwnerInv, TypeOK
  <2>3. Asked' = Asked
    BY <1>1, <1>5, <2>1 DEF Asked, IInv, OwnerInv, TypeOK
  <2>4. TypeOK'
    <3>1. request' \in [Requests -> RequestStates]
      BY <1>2, <2>1 DEF IInv, TypeOK, RequestStates
    <3>2. rows' \in [Deliveries -> WebhookEvents]
      BY <2>1, <2>2 DEF IInv, TypeOK, WebhookEvents
    <3>3. aged \in 0..created'
      BY <2>1, Constants DEF IInv, TypeOK
    <3> QED
      BY <2>1, <2>2, <3>1, <3>2, <3>3 DEF IInv, TypeOK, ConnectionsTypeOK, GithubTypeOK
  <2>5. EventInv' /\ InngestInv'
    BY <2>3 DEF IInv, EventInv, InngestInv
  <2>6. DispatchedInv'
    BY <2>1 DEF IInv, TypeOK, DispatchedInv
  <2>7. RequestInv'
    BY <1>1, <1>2, <1>3, <2>1 DEF IInv, TypeOK, RequestInv, Delivery, PullRequestPcs, ReviewPcs
  <2>8. OwnerInv'
    <3>1. \A p \in Requests : ~Owns(p, d)
      BY <1>1, <1>5 DEF IInv, OwnerInv
    <3> QED
      BY <1>1, <1>2, <2>1, <2>2, <3>1 DEF IInv, TypeOK, OwnerInv, Owns
  <2>9. PayloadInv'
    <3>1. \A p \in Requests : ~Owns(p, d)
      BY <1>1, <1>5 DEF IInv, OwnerInv
    <3> QED
      BY <1>1, <1>2, <2>1, <3>1 DEF IInv, TypeOK, PayloadInv, Owns
  <2>10. SweepInv'
    BY <1>5, <2>1, <2>3 DEF IInv, TypeOK, SweepInv, OwnerInv, SweepStates
  <2>11. PullRequestInv'
    BY <1>2, <2>1, <2>3 DEF IInv, TypeOK, PullRequestInv, ReviewPcs
  <2> QED
    BY <2>4, <2>5, <2>6, <2>7, <2>8, <2>9, <2>10, <2>11 DEF IInv
<1> QED
  BY <1>4, <1>5

(* What moving one request on leaves of the others.                        *)
LEMMA BecomesFrame ==
  ASSUME IInv, NEW q \in Requests, NEW todo \in SUBSET Rows, NEW events \in SUBSET Reviews,
         NEW pc \in {"upsert", "save", "send", "mark-dispatched", "mark-ignored",
                     "sync-repositories"},
         request[q].pc \notin {"idle", "insert"},
         pc \in PullRequestPcs => request[q].pc \in PullRequestPcs,
         Becomes(q, pc, todo, events), UNCHANGED <<emitted, event>>
  PROVE  /\ request' \in [Requests -> RequestStates]
         /\ RequestInv'
         /\ \A p \in Requests, d \in Deliveries : Owns(p, d)' <=> Owns(p, d)
         /\ \A p \in Requests : p # q => request'[p] = request[p]
         /\ request'[q] = [pc |-> pc, d |-> request[q].d, todo |-> todo, events |-> events]
<1>1. [pc |-> pc, d |-> request[q].d, todo |-> todo, events |-> events] \in RequestStates
  BY DEF IInv, TypeOK, RequestStates
<1>2. request' \in [Requests -> RequestStates]
  BY <1>1 DEF Becomes, IInv, TypeOK
<1>3. \A p \in Requests : p # q => request'[p] = request[p]
  BY DEF Becomes, IInv, TypeOK
<1>4. request'[q] = [pc |-> pc, d |-> request[q].d, todo |-> todo, events |-> events]
  BY DEF Becomes, IInv, TypeOK
<1>5. RequestInv'
  <2> SUFFICES ASSUME NEW p \in Requests, ~At(p, "idle")'
               PROVE  /\ request'[p].d \in 1..emitted'
                      /\ request'[p].pc \in PullRequestPcs => Delivery(p)' \in PullRequestEvents
                      /\ At(p, "sync-installation")' => Delivery(p)'.on \in Installations
    BY DEF RequestInv
  <2>1. CASE p # q
    BY <1>3, <2>1 DEF IInv, RequestInv, At, Delivery
  <2>2. CASE p = q
    BY <1>4, <2>2 DEF IInv, RequestInv, At, Delivery
  <2> QED
    BY <2>1, <2>2
<1>6. ASSUME NEW p \in Requests, NEW d \in Deliveries
      PROVE  Owns(p, d)' <=> Owns(p, d)
  <2>1. CASE p # q
    BY <1>3, <2>1 DEF Owns
  <2>2. CASE p = q
    BY <1>4, <2>2 DEF Owns
  <2> QED
    BY <2>1, <2>2
<1> QED
  BY <1>2, <1>3, <1>4, <1>5, <1>6

LEMMA ResolvePreserves ==
  ASSUME IInv, NEW q \in Requests, Resolve(q)
  PROVE  IInv'
<1> DEFINE e == Delivery(q)
           tenants == FindConnected(e.on)
           reviews == RoutePullRequestEvent(e, tenants)
           pc == IF tenants = {} THEN "mark-ignored" ELSE "upsert"
<1> USE DEF connectionVars, githubVars, rowVars, inngestVars
<1>1. /\ request[q].pc = "resolve" /\ Becomes(q, pc, tenants, reviews)
      /\ UNCHANGED <<connectionVars, githubVars, rowVars, aged, pullRequest,
                     inngestVars, sweep>>
  BY DEF Resolve, At
<1>2. tenants \in SUBSET Rows
  BY DEF FindConnected, RowsOfGithubRepo
<1>3. e \in PullRequestEvents
  BY <1>1 DEF IInv, RequestInv, At, PullRequestPcs
<1>4. reviews \in SUBSET Reviews /\ \A f \in reviews : f.repo \in tenants
  <2>1. e.pull.sha \in Shas
    <3> HIDE DEF e
    <3> QED BY <1>3 DEF PullRequestEvents, PullRequests
  <2> HIDE DEF e, tenants
  <2> QED BY <1>2, <2>1 DEF RoutePullRequestEvent, Reviews
<1> HIDE DEF e, tenants, reviews
<1>5. /\ request' \in [Requests -> RequestStates]
      /\ RequestInv'
      /\ \A p \in Requests, d \in Deliveries : Owns(p, d)' <=> Owns(p, d)
      /\ \A p \in Requests : p # q => request'[p] = request[p]
      /\ request'[q] = [pc |-> pc, d |-> request[q].d, todo |-> tenants, events |-> reviews]
  <2>1. CASE Becomes(q, "mark-ignored", tenants, reviews) /\ pc = "mark-ignored"
    BY <1>1, <1>2, <1>4, <2>1, BecomesFrame DEF PullRequestPcs, ReviewPcs
  <2>2. CASE Becomes(q, "upsert", tenants, reviews) /\ pc = "upsert"
    BY <1>1, <1>2, <1>4, <2>2, BecomesFrame DEF PullRequestPcs, ReviewPcs
  <2> QED BY <1>1, <2>1, <2>2
<1>6. TypeOK'
  BY <1>1, <1>5 DEF IInv, TypeOK, ConnectionsTypeOK, GithubTypeOK
<1>7. EventInv' /\ DispatchedInv' /\ InngestInv' /\ SweepInv'
  BY <1>1 DEF IInv, EventInv, DispatchedInv, InngestInv, SweepInv, Asked
<1>8. OwnerInv'
  BY <1>1, <1>5 DEF IInv, OwnerInv, Inserted
<1>9. PayloadInv'
  <2> SUFFICES ASSUME NEW p \in Requests, NEW d \in Deliveries, Owns(p, d)
               PROVE  PayloadInv!(p, d)'
    BY <1>5 DEF PayloadInv
  <2>1. CASE p # q
    BY <1>1, <1>5, <2>1 DEF IInv, PayloadInv, At
  <2>2. CASE p = q
    BY <1>1, <1>5, <2>2 DEF IInv, PayloadInv, At
  <2> QED
    BY <2>1, <2>2
<1>10. PullRequestInv'
  BY <1>1, <1>4, <1>5 DEF IInv, PullRequestInv, ReviewPcs, Asked, At
<1> QED
  BY <1>5, <1>6, <1>7, <1>8, <1>9, <1>10 DEF IInv

LEMMA UpsertMinimalPreserves ==
  ASSUME IInv, NEW q \in Requests, UpsertMinimal(q)
  PROVE  IInv'
<1> USE DEF connectionVars, githubVars, rowVars, inngestVars
<1>1. PICK t \in request[q].todo :
        /\ pullRequest' = [pullRequest EXCEPT ![t] = Delivery(q).pull]
        /\ \/ Becomes(q, "upsert", request[q].todo \ {t}, request[q].events)
           \/ /\ request[q].todo = {t}
              /\ Becomes(q, IF request[q].events = {} THEN "mark-ignored" ELSE "save",
                         {}, request[q].events)
  BY DEF UpsertMinimal
<1>2. /\ request[q].pc = "upsert"
      /\ UNCHANGED <<connectionVars, githubVars, rowVars, aged, inngestVars, sweep>>
  BY DEF UpsertMinimal, At
<1>3. request[q].todo \in SUBSET Rows /\ request[q].events \in SUBSET Reviews
  BY DEF IInv, TypeOK, RequestStates
<1>4. Delivery(q).pull \in PullRequests
  BY <1>2 DEF IInv, RequestInv, At, PullRequestPcs, ReviewPcs, PullRequestEvents
<1>5. /\ pullRequest' \in [Rows -> PullRequests \cup {None}]
      /\ \A u \in Rows : u = t \/ pullRequest[u] # None => pullRequest'[u] # None
  BY <1>1, <1>3, <1>4, Constants DEF IInv, TypeOK
<1>6. /\ request' \in [Requests -> RequestStates]
      /\ RequestInv'
      /\ \A p \in Requests, d \in Deliveries : Owns(p, d)' <=> Owns(p, d)
      /\ \A p \in Requests : p # q => request'[p] = request[p]
      /\ request'[q].events = request[q].events
      /\ \/ request'[q].pc = "mark-ignored"
         \/ request'[q].pc = "save" /\ request[q].events # {} /\ request[q].todo = {t}
         \/ request'[q].pc = "upsert" /\ request'[q].todo = request[q].todo \ {t}
  <2>1. CASE Becomes(q, "upsert", request[q].todo \ {t}, request[q].events)
    BY <1>2, <1>3, <2>1, BecomesFrame DEF Becomes, PullRequestPcs, ReviewPcs
  <2>2. CASE /\ request[q].todo = {t} /\ request[q].events = {}
             /\ Becomes(q, "mark-ignored", {}, request[q].events)
    BY <1>2, <1>3, <2>2, BecomesFrame DEF Becomes, PullRequestPcs, ReviewPcs
  <2>3. CASE /\ request[q].todo = {t} /\ request[q].events # {}
             /\ Becomes(q, "save", {}, request[q].events)
    BY <1>2, <1>3, <2>3, BecomesFrame DEF Becomes, PullRequestPcs, ReviewPcs
  <2> QED
    BY <1>1, <2>1, <2>2, <2>3
<1>7. TypeOK'
  BY <1>2, <1>5, <1>6 DEF IInv, TypeOK, ConnectionsTypeOK, GithubTypeOK
<1>8. EventInv' /\ DispatchedInv' /\ InngestInv' /\ SweepInv'
  BY <1>2 DEF IInv, EventInv, DispatchedInv, InngestInv, SweepInv, Asked
<1>9. OwnerInv'
  BY <1>2, <1>6 DEF IInv, OwnerInv, Inserted
<1>10. PayloadInv'
  <2> SUFFICES ASSUME NEW p \in Requests, NEW d \in Deliveries, Owns(p, d)
               PROVE  PayloadInv!(p, d)'
    BY <1>6 DEF PayloadInv
  <2>1. CASE p # q
    BY <1>2, <1>6, <2>1 DEF IInv, PayloadInv, At
  <2>2. CASE p = q
    BY <1>2, <1>6, <2>2 DEF IInv, PayloadInv, At
  <2> QED
    BY <2>1, <2>2
<1>11. PullRequestInv'
  <2>1. ASSUME NEW f \in Asked' PROVE pullRequest'[f.repo] # None
    <3>1. f \in Asked /\ f \in Reviews
      BY <1>2, <2>1 DEF Asked, IInv, TypeOK, WebhookEvents
    <3> QED
      BY <1>5, <3>1 DEF IInv, PullRequestInv, Reviews
  <2>2. ASSUME NEW p \in Requests, NEW f \in request'[p].events, request'[p].pc \in ReviewPcs
        PROVE  \/ pullRequest'[f.repo] # None
               \/ At(p, "upsert")' /\ f.repo \in request'[p].todo
    <3>1. f \in Reviews /\ f.repo \in Rows
      BY <1>6 DEF RequestStates, Reviews
    <3>2. CASE p # q
      BY <1>5, <1>6, <2>2, <3>1, <3>2 DEF IInv, PullRequestInv, At
    <3>3. CASE p = q
      <4>1. pullRequest[f.repo] # None \/ f.repo \in request[q].todo
        BY <1>2, <1>6, <2>2, <3>3 DEF IInv, PullRequestInv, ReviewPcs
      <4> QED
        BY <1>5, <1>6, <2>2, <3>1, <3>3, <4>1 DEF At, ReviewPcs
    <3> QED
      BY <3>2, <3>3
  <2> QED
    BY <2>1, <2>2 DEF PullRequestInv
<1> QED
  BY <1>6, <1>7, <1>8, <1>9, <1>10, <1>11 DEF IInv

(* A request that holds a review owns the row of its delivery.             *)
LEMMA OwnRow ==
  ASSUME IInv, NEW q \in Requests, request[q].pc \notin {"idle", "insert"}
  PROVE  /\ request[q].d \in Deliveries
         /\ Owns(q, request[q].d)
         /\ rows[request[q].d].status # "ABSENT"
<1>1. request[q].d \in Deliveries
  BY Constants DEF IInv, TypeOK, GithubTypeOK, RequestInv, At, Deliveries
<1>2. Owns(q, request[q].d)
  BY DEF Owns
<1> QED
  BY <1>1, <1>2 DEF IInv, OwnerInv

LEMMA SavePendingDispatchPayloadPreserves ==
  ASSUME IInv, NEW q \in Requests, SavePendingDispatchPayload(q)
  PROVE  IInv'
<1> DEFINE d == request[q].d
           events == request[q].events
<1> USE DEF connectionVars, githubVars, rowVars, inngestVars
<1>1. /\ request[q].pc = "save"
      /\ rows' = [rows EXCEPT ![d].payload = events]
      /\ Becomes(q, "send", request[q].todo, events)
      /\ UNCHANGED <<connectionVars, githubVars, created, aged, pullRequest,
                     inngestVars, sweep>>
  BY DEF SavePendingDispatchPayload, At, Goto
<1>2. request[q].todo \in SUBSET Rows /\ events \in SUBSET Reviews
  BY DEF IInv, TypeOK, RequestStates
<1>3. d \in Deliveries /\ Owns(q, d) /\ rows[d].status # "ABSENT"
  BY <1>1, OwnRow
<1>4. rows[d].payload = {} /\ events # {}
  BY <1>1, <1>3 DEF IInv, PayloadInv
<1>5. /\ request' \in [Requests -> RequestStates]
      /\ RequestInv'
      /\ \A p \in Requests, c \in Deliveries : Owns(p, c)' <=> Owns(p, c)
      /\ \A p \in Requests : p # q => request'[p] = request[p]
      /\ request'[q] = [pc |-> "send", d |-> d, todo |-> request[q].todo, events |-> events]
  BY <1>1, <1>2, BecomesFrame DEF PullRequestPcs, ReviewPcs
<1>6. /\ rows' \in [Deliveries -> WebhookEvents]
      /\ \A c \in Deliveries : /\ rows'[c].status = rows[c].status
                               /\ c # d => rows'[c].payload = rows[c].payload
      /\ rows'[d].payload = events
  BY <1>1, <1>2, <1>3 DEF IInv, TypeOK, WebhookEvents
<1>7. Asked' = Asked \cup events
  BY <1>3, <1>4, <1>6 DEF Asked
<1> HIDE DEF d, events
<1>8. TypeOK'
  BY <1>1, <1>5, <1>6 DEF IInv, TypeOK, ConnectionsTypeOK, GithubTypeOK
<1>9. EventInv' /\ DispatchedInv'
  BY <1>1, <1>4, <1>6 DEF IInv, EventInv, DispatchedInv, PrKey
<1>10. OwnerInv'
  <2>1. Inserted' = Inserted
    BY <1>6 DEF Inserted
  <2> QED
    BY <1>1, <1>3, <1>5, <1>6, <2>1 DEF IInv, OwnerInv
<1>11. PayloadInv'
  <2> SUFFICES ASSUME NEW p \in Requests, NEW c \in Deliveries, Owns(p, c)
               PROVE  PayloadInv!(p, c)'
    BY <1>5 DEF PayloadInv
  <2>1. CASE p # q
    <3>1. c # d
      BY <1>3, <2>1 DEF IInv, OwnerInv
    <3> QED
      BY <1>1, <1>5, <1>6, <2>1, <3>1 DEF IInv, PayloadInv, At, PrKey
  <2>2. CASE p = q
    <3>1. c = d
      BY <2>2 DEF Owns, d
    <3> QED
      BY <1>4, <1>5, <1>6, <2>2, <3>1 DEF At
  <2> QED
    BY <2>1, <2>2
<1>12. InngestInv'
  BY <1>1, <1>7 DEF IInv, InngestInv, PrKey
<1>13. SweepInv'
  <2>1. \A c \in sweep.sends : c # d
    BY <1>4 DEF IInv, SweepInv
  <2>2. \A c \in sweep.sends \cup sweep.skips : c \in Deliveries
    BY DEF IInv, TypeOK, SweepStates
  <2> QED
    BY <1>1, <1>6, <1>7, <2>1, <2>2 DEF IInv, SweepInv, PrKey
<1>14. PullRequestInv'
  <2>1. \A f \in events : pullRequest[f.repo] # None
    BY <1>1 DEF IInv, PullRequestInv, ReviewPcs, At, events
  <2> QED
    BY <1>1, <1>5, <1>7, <2>1 DEF IInv, PullRequestInv, ReviewPcs, At
<1> QED
  BY <1>5, <1>8, <1>9, <1>10, <1>11, <1>12, <1>13, <1>14 DEF IInv

LEMMA SendAcceptedPreserves ==
  ASSUME IInv, NEW q \in Requests, SendAccepted(q)
  PROVE  IInv'
<1> DEFINE d == request[q].d
           events == request[q].events
<1> USE DEF connectionVars, githubVars, rowVars
<1>1. /\ request[q].pc = "send"
      /\ Accept(events)
      /\ Becomes(q, "mark-dispatched", request[q].todo, events)
      /\ UNCHANGED <<connectionVars, githubVars, rowVars, aged, pullRequest, late, sweep>>
  BY DEF SendAccepted, At, Goto
<1>2. request[q].todo \in SUBSET Rows /\ events \in SUBSET Reviews
  BY DEF IInv, TypeOK, RequestStates
<1>3. d \in Deliveries /\ Owns(q, d)
  BY <1>1, OwnRow
<1>4. rows[d].payload = events /\ events # {}
  BY <1>1, <1>3 DEF IInv, PayloadInv
<1>5. events \subseteq Asked
  BY <1>3, <1>4 DEF Asked
<1>6. /\ request' \in [Requests -> RequestStates]
      /\ RequestInv'
      /\ \A p \in Requests, c \in Deliveries : Owns(p, c)' <=> Owns(p, c)
      /\ \A p \in Requests : p # q => request'[p] = request[p]
      /\ request'[q] = [pc |-> "mark-dispatched", d |-> d, todo |-> request[q].todo,
                        events |-> events]
  BY <1>1, <1>2, BecomesFrame DEF PullRequestPcs, ReviewPcs
<1>7. /\ InngestInv' /\ late' \subseteq SUBSET Reviews
      /\ seen' \subseteq Rows \X Shas /\ started' \in [Reviews -> Nat]
      /\ seen \subseteq seen' /\ \A e \in events : PrKey(e) \in seen'
  BY <1>1, <1>2, <1>5, AcceptFrame DEF Accept
<1>8. TypeOK'
  BY <1>1, <1>6, <1>7 DEF IInv, TypeOK, ConnectionsTypeOK, GithubTypeOK
<1>9. EventInv' /\ DispatchedInv' /\ SweepInv'
  BY <1>1, <1>7 DEF IInv, EventInv, DispatchedInv, SweepInv, Asked, PrKey
<1>10. OwnerInv'
  BY <1>1, <1>6 DEF IInv, OwnerInv, Inserted
<1>11. PayloadInv'
  <2> SUFFICES ASSUME NEW p \in Requests, NEW c \in Deliveries, Owns(p, c)
               PROVE  PayloadInv!(p, c)'
    BY <1>6 DEF PayloadInv
  <2>1. CASE p # q
    BY <1>1, <1>6, <1>7, <2>1 DEF IInv, PayloadInv, At, PrKey
  <2>2. CASE p = q
    <3>1. c = d
      BY <2>2 DEF Owns
    <3> QED
      BY <1>1, <1>4, <1>6, <1>7, <2>2, <3>1 DEF At, PrKey
  <2> QED
    BY <2>1, <2>2
<1>12. PullRequestInv'
  BY <1>1, <1>6 DEF IInv, PullRequestInv, ReviewPcs, Asked, At
<1> QED
  BY <1>6, <1>7, <1>8, <1>9, <1>10, <1>11, <1>12 DEF IInv

LEMMA SendUnansweredPreserves ==
  ASSUME IInv, NEW q \in Requests, SendUnanswered(q)
  PROVE  IInv'
<1> DEFINE d == request[q].d
           events == request[q].events
<1> USE DEF connectionVars, githubVars, rowVars
<1>1. /\ request[q].pc = "send" /\ Ends(q) /\ late' = late \cup {events}
      /\ UNCHANGED <<connectionVars, githubVars, rowVars, aged, pullRequest, seen,
                     started, sweep>>
  BY DEF SendUnanswered, At
<1>2. d \in Deliveries /\ Owns(q, d)
  BY <1>1, OwnRow
<1>3. events \subseteq Reviews /\ events \subseteq Asked
  <2>1. events \subseteq Reviews
    BY DEF IInv, TypeOK, RequestStates
  <2>2. rows[d].payload = events
    BY <1>1, <1>2 DEF IInv, PayloadInv
  <2> QED
    BY <1>2, <2>1, <2>2 DEF Asked
<1>4. Asked' = Asked
  BY <1>1 DEF Asked
<1>5. /\ request' \in [Requests -> RequestStates]
      /\ RequestInv'
      /\ \A p \in Requests, c \in Deliveries : Owns(p, c)' => p # q /\ Owns(p, c)
      /\ \A p \in Requests : p # q => request'[p] = request[p]
      /\ request'[q] = Idle
  BY <1>1, EndsFrame
<1>6. TypeOK'
  BY <1>1, <1>3, <1>5 DEF IInv, TypeOK, ConnectionsTypeOK, GithubTypeOK
<1>7. EventInv' /\ DispatchedInv' /\ SweepInv'
  BY <1>1, <1>4 DEF IInv, EventInv, DispatchedInv, SweepInv
<1>8. InngestInv'
  BY <1>1, <1>3, <1>4 DEF IInv, InngestInv
<1>9. OwnerInv'
  BY <1>1, <1>5 DEF IInv, OwnerInv, Inserted
<1>10. PayloadInv'
  BY <1>1, <1>5 DEF IInv, PayloadInv, At
<1>11. PullRequestInv'
  BY <1>1, <1>4, <1>5 DEF IInv, PullRequestInv, Idle, ReviewPcs, At
<1> QED
  BY <1>5, <1>6, <1>7, <1>8, <1>9, <1>10, <1>11 DEF IInv

LEMMA MarkPreserves ==
  ASSUME IInv, NEW q \in Requests,
         MarkDispatched(q) \/ MarkIgnored(q) \/ MarkFailed(q)
  PROVE  IInv'
<1> DEFINE d == request[q].d
<1> USE DEF connectionVars, githubVars, rowVars, inngestVars
<1>1. PICK s \in {"DISPATCHED", "IGNORED", "FAILED"} :
        /\ rows' = [rows EXCEPT ![d].status = s]
        /\ s = "DISPATCHED" => request[q].pc = "mark-dispatched"
        /\ request[q].pc \in {"mark-dispatched", "mark-ignored", "mark-failed"}
        /\ Ends(q)
        /\ UNCHANGED <<connectionVars, githubVars, created, aged, pullRequest,
                       inngestVars, sweep>>
  <2>1. CASE MarkDispatched(q)
    BY <2>1 DEF MarkDispatched, Mark, At, githubVars
  <2>2. CASE MarkIgnored(q)
    BY <2>2 DEF MarkIgnored, Mark, At, githubVars
  <2>3. CASE MarkFailed(q)
    BY <2>3 DEF MarkFailed, Mark, At, githubVars
  <2> QED BY <2>1, <2>2, <2>3
<1>2. d \in Deliveries /\ Owns(q, d) /\ rows[d].status # "ABSENT"
  BY <1>1, OwnRow
<1>3. /\ rows' \in [Deliveries -> WebhookEvents]
      /\ \A c \in Deliveries :
           /\ rows'[c].payload = rows[c].payload
           /\ rows'[c].status = IF c = d THEN s ELSE rows[c].status
      /\ Asked' = Asked
      /\ Inserted' = Inserted
  <2>1. rows' = [rows EXCEPT ![d].status = s]
    BY <1>1
  <2> HIDE DEF d
  <2> QED BY <1>2, <2>1, StatusFrame
<1>4. /\ request' \in [Requests -> RequestStates]
      /\ RequestInv'
      /\ \A p \in Requests, c \in Deliveries : Owns(p, c)' => p # q /\ Owns(p, c)
      /\ \A p \in Requests : p # q => request'[p] = request[p]
      /\ request'[q] = Idle
  BY <1>1, EndsFrame
<1> HIDE DEF d
<1>5. TypeOK'
  BY <1>1, <1>3, <1>4 DEF IInv, TypeOK, ConnectionsTypeOK, GithubTypeOK
<1>6. EventInv' /\ InngestInv'
  BY <1>1, <1>3 DEF IInv, EventInv, InngestInv
<1>7. SweepInv'
  BY <1>1, <1>3 DEF IInv, TypeOK, SweepInv, SweepStates
<1>8. OwnerInv'
  BY <1>1, <1>2, <1>3, <1>4 DEF IInv, OwnerInv
<1>9. PayloadInv'
  BY <1>1, <1>3, <1>4 DEF IInv, PayloadInv, At
<1>10. PullRequestInv'
  BY <1>1, <1>3, <1>4 DEF IInv, PullRequestInv, Idle, ReviewPcs, At
<1>11. DispatchedInv'
  <2> SUFFICES ASSUME NEW c \in Deliveries, rows'[c].status = "DISPATCHED"
               PROVE  rows[c].payload # {} /\ \A e \in rows[c].payload : PrKey(e) \in seen
    BY <1>1, <1>3 DEF DispatchedInv, PrKey
  <2>1. CASE c # d
    BY <1>3, <2>1 DEF IInv, DispatchedInv
  <2>2. CASE c = d
    BY <1>1, <1>2, <1>3, <2>2 DEF IInv, PayloadInv, At
  <2> QED
    BY <2>1, <2>2
<1> QED
  BY <1>4, <1>5, <1>6, <1>7, <1>8, <1>9, <1>10, <1>11 DEF IInv

LEMMA SyncPreserves ==
  ASSUME IInv, NEW q \in Requests, SyncInstallation(q) \/ SyncRepositories(q)
  PROVE  IInv'
<1> USE DEF githubVars, rowVars, inngestVars
<1>1. PICK pc \in {"mark-ignored", "sync-repositories"} :
        /\ request[q].pc \in {"sync-installation", "sync-repositories"}
        /\ Becomes(q, pc, request[q].todo, request[q].events)
        /\ UNCHANGED <<deleted, githubVars, rowVars, aged, pullRequest, inngestVars, sweep>>
  BY DEF SyncInstallation, SyncRepositories, Goto, At
<1>2. request[q].todo \in SUBSET Rows /\ request[q].events \in SUBSET Reviews
  BY DEF IInv, TypeOK, RequestStates
<1>3. ConnectionsTypeOK'
  <2>1. CASE SyncInstallation(q)
    <3>1. Delivery(q).on \in Installations
      BY <2>1 DEF SyncInstallation, At, IInv, RequestInv
    <3> QED
      BY <2>1, <3>1 DEF SyncInstallation, IInv, TypeOK, ConnectionsTypeOK
  <2>2. CASE SyncRepositories(q)
    BY <2>2 DEF SyncRepositories, MarkAccessLost, RestoreActive, MovesRows, IInv, TypeOK,
                ConnectionsTypeOK, ConnectionStatuses
  <2> QED
    BY <2>1, <2>2
<1>4. /\ request' \in [Requests -> RequestStates]
      /\ RequestInv'
      /\ \A p \in Requests, c \in Deliveries : Owns(p, c)' <=> Owns(p, c)
      /\ \A p \in Requests : p # q => request'[p] = request[p]
      /\ request'[q].pc = pc
  BY <1>1, <1>2, BecomesFrame DEF Becomes, PullRequestPcs, ReviewPcs
<1>5. TypeOK'
  BY <1>1, <1>3, <1>4 DEF IInv, TypeOK, GithubTypeOK
<1>6. EventInv' /\ DispatchedInv' /\ InngestInv' /\ SweepInv'
  BY <1>1 DEF IInv, EventInv, DispatchedInv, InngestInv, SweepInv, Asked
<1>7. OwnerInv'
  BY <1>1, <1>4 DEF IInv, OwnerInv, Inserted
<1>8. PayloadInv'
  <2> SUFFICES ASSUME NEW p \in Requests, NEW c \in Deliveries, Owns(p, c)
               PROVE  PayloadInv!(p, c)'
    BY <1>4 DEF PayloadInv
  <2>1. CASE p # q
    BY <1>1, <1>4, <2>1 DEF IInv, PayloadInv, At
  <2>2. CASE p = q
    BY <1>1, <1>4, <2>2 DEF IInv, PayloadInv, At
  <2> QED
    BY <2>1, <2>2
<1>9. PullRequestInv'
  BY <1>1, <1>4 DEF IInv, PullRequestInv, ReviewPcs, Asked, At
<1> QED
  BY <1>4, <1>5, <1>6, <1>7, <1>8, <1>9 DEF IInv
-----------------------------------------------------------------------------
LEMMA AcceptLatePreserves ==
  ASSUME IInv, AcceptLate
  PROVE  IInv'
<1> USE DEF connectionVars, githubVars, rowVars
<1>1. PICK es \in late : Accept(es) /\ late' = late \ {es}
  BY DEF AcceptLate
<1>2. UNCHANGED <<connectionVars, githubVars, rowVars, aged, request, pullRequest, sweep>>
  BY DEF AcceptLate
<1>3. es \in SUBSET Reviews /\ es \subseteq Asked
  BY <1>1 DEF IInv, TypeOK, InngestInv
<1>4. /\ InngestInv' /\ late' \subseteq SUBSET Reviews
      /\ seen' \subseteq Rows \X Shas /\ started' \in [Reviews -> Nat]
      /\ seen \subseteq seen'
  BY <1>1, <1>2, <1>3, AcceptFrame
<1>5. TypeOK'
  BY <1>2, <1>4 DEF IInv, TypeOK, ConnectionsTypeOK, GithubTypeOK
<1>6. EventInv' /\ RequestInv' /\ OwnerInv'
  BY <1>2 DEF IInv, EventInv, RequestInv, OwnerInv, At, Delivery, Owns, Inserted
<1>7. DispatchedInv' /\ SweepInv'
  BY <1>2, <1>4 DEF IInv, DispatchedInv, SweepInv, Asked, PrKey
<1>8. PayloadInv'
  BY <1>2, <1>4 DEF IInv, PayloadInv, Owns, At, PrKey
<1>9. PullRequestInv'
  BY <1>2 DEF IInv, PullRequestInv, Asked, At
<1> QED
  BY <1>4, <1>5, <1>6, <1>7, <1>8, <1>9 DEF IInv

LEMMA UserStepPreserves ==
  ASSUME IInv, UserStep
  PROVE  IInv'
<1> USE DEF githubVars, rowVars, inngestVars
<1>1. UNCHANGED <<githubVars, rowVars, aged, request, pullRequest, inngestVars, sweep>>
  BY DEF UserStep
<1>2. ConnectionsTypeOK'
  BY DEF UserStep, ConnectRepository, DisconnectRepository, SoftDeleteProject, IInv, TypeOK,
         ConnectionsTypeOK, ConnectionStatuses
<1>3. TypeOK'
  BY <1>1, <1>2 DEF IInv, TypeOK, GithubTypeOK
<1>4. EventInv' /\ RequestInv' /\ OwnerInv' /\ PayloadInv'
  BY <1>1 DEF IInv, EventInv, RequestInv, OwnerInv, PayloadInv, At, Delivery, Owns, Inserted
<1>5. InngestInv' /\ SweepInv' /\ PullRequestInv' /\ DispatchedInv'
  BY <1>1 DEF IInv, InngestInv, SweepInv, PullRequestInv, DispatchedInv, Asked, At
<1> QED
  BY <1>3, <1>4, <1>5 DEF IInv

LEMMA AgePreserves ==
  ASSUME IInv, Age
  PROVE  IInv'
<1> USE DEF connectionVars, githubVars, rowVars, inngestVars
<1>1. /\ aged < created /\ aged' = aged + 1
      /\ UNCHANGED <<connectionVars, githubVars, rowVars, request, pullRequest,
                     inngestVars, sweep>>
  BY DEF Age
<1>2. TypeOK'
  BY <1>1, Constants DEF IInv, TypeOK, ConnectionsTypeOK, GithubTypeOK
<1>3. EventInv' /\ RequestInv' /\ OwnerInv' /\ PayloadInv'
  BY <1>1 DEF IInv, EventInv, RequestInv, OwnerInv, PayloadInv, At, Delivery, Owns, Inserted
<1>4. InngestInv' /\ SweepInv' /\ PullRequestInv' /\ DispatchedInv'
  BY <1>1 DEF IInv, InngestInv, SweepInv, PullRequestInv, DispatchedInv, Asked, At
<1> QED
  BY <1>2, <1>3, <1>4 DEF IInv

LEMMA GithubStepPreserves ==
  ASSUME IInv, GithubStep
  PROVE  IInv'
<1> USE DEF connectionVars, rowVars, inngestVars
<1>1. UNCHANGED <<connectionVars, rowVars, aged, request, pullRequest, inngestVars, sweep>>
  BY DEF GithubStep
<1>2. PICK e : e \in Events /\ Report(e)
  <2>1. ASSUME NEW g \in GithubRepos, PullRequestChanges(g)
        PROVE  \E e : e \in Events /\ Report(e)
    <3>1. PICK action \in PullRequestActions, p \in PullRequests :
            Report([type |-> "pull_request", action |-> action, on |-> g, pull |-> p])
      BY <2>1 DEF PullRequestChanges
    <3>2. [type |-> "pull_request", action |-> action, on |-> g, pull |-> p] \in Events
      BY DEF Events, PullRequestEvents
    <3> QED
      BY <3>1, <3>2
  <2>2. ASSUME NEW g \in GithubRepos, RepositoryChanges(g)
        PROVE  \E e : e \in Events /\ Report(e)
    BY <2>2 DEF RepositoryChanges, Events, SyncEvents, REPOSITORY_SYNC_ACTIONS,
                INSTALLATION_REPOSITORIES_SYNC_ACTIONS
  <2>3. ASSUME NEW i \in Installations, InstallationChanges(i)
        PROVE  \E e : e \in Events /\ Report(e)
    BY <2>3 DEF InstallationChanges, Events, SyncEvents, INSTALLATION_SYNC_ACTIONS
  <2>4. ASSUME UnreadableChange
        PROVE  \E e : e \in Events /\ Report(e)
    BY <2>4 DEF UnreadableChange, Events
  <2> QED
    BY <2>1, <2>2, <2>3, <2>4 DEF GithubStep, GithubNext
<1>3. /\ emitted < MAX_DELIVERIES /\ emitted' = emitted + 1
      /\ event' = [event EXCEPT ![emitted + 1] = e]
  BY <1>2 DEF Report
<1>4. emitted \in Nat /\ emitted + 1 \in Deliveries
  BY <1>3, Constants DEF IInv, TypeOK, GithubTypeOK, Deliveries
<1>5. event' \in [Deliveries -> Events \cup {None}]
  BY <1>2, <1>3, <1>4 DEF IInv, TypeOK, GithubTypeOK
<1>6. \A d \in 1..emitted : d \in Deliveries /\ event'[d] = event[d]
  BY <1>3, <1>4, Constants DEF IInv, TypeOK, GithubTypeOK, Deliveries
<1>7. event'[emitted + 1] = e
  BY <1>3, <1>4 DEF IInv, TypeOK, GithubTypeOK
<1>8. pr' \in [GithubRepos -> PullRequests \cup {None}]
  BY DEF GithubStep, GithubNext, PullRequestChanges, RepositoryChanges, InstallationChanges,
         UnreadableChange, IInv, TypeOK, GithubTypeOK
<1>9. barred' \subseteq ({"archived", "deleted", "removed"} \X GithubRepos)
                        \cup ({"suspended", "uninstalled"} \X Installations)
  <2> DEFINE Barred == ({"archived", "deleted", "removed"} \X GithubRepos)
                        \cup ({"suspended", "uninstalled"} \X Installations)
  <2>1. ASSUME NEW g \in GithubRepos, PullRequestChanges(g) PROVE barred' \subseteq Barred
    BY <2>1 DEF PullRequestChanges, IInv, TypeOK, GithubTypeOK
  <2>2. ASSUME NEW g \in GithubRepos, RepositoryChanges(g) PROVE barred' \subseteq Barred
    <3>1. \E x \in {"archived", "deleted", "removed"} \X GithubRepos : barred' \subseteq barred \cup {x}
      BY <2>2 DEF RepositoryChanges
    <3> QED
      BY <3>1 DEF IInv, TypeOK, GithubTypeOK
  <2>3. ASSUME NEW i \in Installations, InstallationChanges(i) PROVE barred' \subseteq Barred
    <3>1. \E x \in {"suspended", "uninstalled"} \X Installations : barred' \subseteq barred \cup {x}
      BY <2>3 DEF InstallationChanges
    <3> QED
      BY <3>1 DEF IInv, TypeOK, GithubTypeOK
  <2>4. ASSUME UnreadableChange PROVE barred' \subseteq Barred
    BY <2>4 DEF UnreadableChange, IInv, TypeOK, GithubTypeOK
  <2> QED
    BY <2>1, <2>2, <2>3, <2>4 DEF GithubStep, GithubNext
<1>10. GithubTypeOK'
  BY <1>3, <1>4, <1>5, <1>8, <1>9 DEF GithubTypeOK, Deliveries
<1>11. TypeOK'
  BY <1>1, <1>10 DEF IInv, TypeOK, ConnectionsTypeOK
<1>12. EventInv'
  <2> SUFFICES ASSUME NEW d \in 1..(emitted + 1) PROVE event'[d] \in Events
    BY <1>3 DEF EventInv
  <2>1. CASE d = emitted + 1
    BY <1>2, <1>7, <2>1
  <2>2. CASE d \in 1..emitted
    BY <1>6, <2>2 DEF IInv, EventInv
  <2> QED
    BY <1>4, <2>1, <2>2
<1>13. RequestInv'
  <2> SUFFICES ASSUME NEW q \in Requests, request[q].pc # "idle"
               PROVE  /\ request[q].d \in 1..emitted'
                      /\ request[q].pc \in PullRequestPcs => event'[request[q].d] \in PullRequestEvents
                      /\ request[q].pc = "sync-installation"
                           => event'[request[q].d].on \in Installations
    BY <1>1 DEF RequestInv, At, Delivery
  <2>1. request[q].d \in 1..emitted
    BY DEF IInv, RequestInv, At
  <2>2. event'[request[q].d] = event[request[q].d]
    BY <1>6, <2>1
  <2> QED
    BY <1>3, <1>4, <2>1, <2>2 DEF IInv, RequestInv, At, Delivery
<1>14. OwnerInv' /\ PayloadInv'
  BY <1>1 DEF IInv, OwnerInv, PayloadInv, At, Owns, Inserted
<1>15. InngestInv' /\ SweepInv' /\ PullRequestInv' /\ DispatchedInv'
  BY <1>1 DEF IInv, InngestInv, SweepInv, PullRequestInv, DispatchedInv, Asked, At
<1> QED
  BY <1>11, <1>12, <1>13, <1>14, <1>15 DEF IInv
-----------------------------------------------------------------------------
(* A sweep that neither touches rows nor reaches Inngest.                  *)
LEMMA SweepFrame ==
  ASSUME IInv, sweep' \in SweepStates, SweepInv',
         UNCHANGED <<connectionVars, githubVars, rowVars, aged, request, pullRequest,
                     seen, started>>,
         \A es \in late' : es \in SUBSET Reviews /\ es \subseteq Asked
  PROVE  IInv'
<1> USE DEF connectionVars, githubVars, rowVars
<1>1. TypeOK'
  BY DEF IInv, TypeOK, ConnectionsTypeOK, GithubTypeOK
<1>2. EventInv' /\ RequestInv' /\ OwnerInv' /\ PayloadInv'
  BY DEF IInv, EventInv, RequestInv, OwnerInv, PayloadInv, At, Delivery, Owns, Inserted
<1>3. InngestInv'
  BY DEF IInv, InngestInv, Asked
<1>4. PullRequestInv' /\ DispatchedInv'
  BY DEF IInv, PullRequestInv, DispatchedInv, Asked, At
<1> QED
  BY <1>1, <1>2, <1>3, <1>4 DEF IInv

LEMMA AsleepIsFine ==
  ASSUME TypeOK
  PROVE  /\ Asleep \in SweepStates
         /\ sweep' = Asleep => SweepInv'
BY DEF Asleep, SweepStates, SweepInv

LEMMA SweepFindsPreserves ==
  ASSUME IInv, SweepFinds
  PROVE  IInv'
<1> DEFINE sends == Sendable(Batch)
           skips == Skips(Batch)
           pc == IF sends = {} THEN "mark" ELSE "send"
           events == UNION {rows[d].payload : d \in sends}
<1>1. sweep' = [pc |-> pc, sends |-> sends, skips |-> skips, events |-> events,
                marked |-> {}, tries |-> 0]
  BY DEF SweepFinds
<1>2. UNCHANGED <<connectionVars, githubVars, rowVars, aged, request, pullRequest, inngestVars>>
  BY DEF SweepFinds
<1>3. /\ sends \subseteq Deliveries /\ skips \subseteq Deliveries
      /\ sends \cap skips = {}
      /\ \A d \in sends : rows[d].payload # {}
      /\ \A d \in skips : rows[d].status = "PENDING"
  BY DEF Sendable, Skips, Batch, PendingOlderThanThreshold
<1>4. events \subseteq Asked /\ \A d \in sends : rows[d].payload \subseteq events
  BY <1>3 DEF Asked
<1>5. events \subseteq Reviews
  BY <1>3 DEF IInv, TypeOK, WebhookEvents
<1>6. pc = "mark" => sends = {}
  OBVIOUS
<1>7. pc \in {"send", "mark"}
  OBVIOUS
<1> HIDE DEF sends, skips, pc, events
<1>8. sweep' \in SweepStates
  BY <1>1, <1>3, <1>5, <1>7 DEF SweepStates
<1>9. SweepInv'
  BY <1>1, <1>2, <1>3, <1>4, <1>6, <1>7 DEF SweepInv, Asked, rowVars
<1>10. \A es \in late' : es \in SUBSET Reviews /\ es \subseteq Asked
  BY <1>2 DEF inngestVars, IInv, TypeOK, InngestInv
<1> QED
  BY <1>2, <1>8, <1>9, <1>10, SweepFrame DEF inngestVars

LEMMA SweepEndsPreserves ==
  ASSUME IInv, SweepEnds
  PROVE  IInv'
<1>1. \A es \in late' : es \in SUBSET Reviews /\ es \subseteq Asked
  BY DEF SweepEnds, inngestVars, IInv, TypeOK, InngestInv
<1> QED
  BY <1>1, AsleepIsFine, SweepFrame DEF SweepEnds, inngestVars, IInv

LEMMA SweepThrowsPreserves ==
  ASSUME IInv, SweepThrows
  PROVE  IInv'
<1>1. UNCHANGED <<connectionVars, githubVars, rowVars, aged, request, pullRequest,
                  seen, started>>
  BY DEF SweepThrows, inngestVars
<1>2. \A es \in late' : es \in SUBSET Reviews /\ es \subseteq Asked
  <2>1. late' \subseteq late \cup {sweep.events}
    BY DEF SweepThrows, inngestVars
  <2>2. sweep.events \in SUBSET Reviews /\ sweep.events \subseteq Asked
    BY DEF IInv, TypeOK, SweepStates, SweepInv
  <2> QED
    BY <2>1, <2>2 DEF IInv, TypeOK, InngestInv
<1>3. CASE sweep' = Asleep
  BY <1>1, <1>2, <1>3, AsleepIsFine, SweepFrame DEF IInv
<1>4. CASE sweep.tries < 1 /\ sweep' = Sweep(sweep.pc, {}, sweep.tries + 1)
  <2>1. sweep' = [pc |-> sweep.pc, sends |-> sweep.sends, skips |-> sweep.skips,
                  events |-> sweep.events, marked |-> {}, tries |-> sweep.tries + 1]
    BY <1>4 DEF Sweep
  <2>2. sweep.pc # "idle"
    BY DEF SweepThrows
  <2>3. sweep' \in SweepStates
    BY <1>4, <2>1 DEF IInv, TypeOK, SweepStates
  <2>4. SweepInv'
    BY <1>1, <2>1, <2>2 DEF IInv, SweepInv, Asked, PrKey, rowVars
  <2> QED
    BY <1>1, <1>2, <2>3, <2>4, SweepFrame
<1> QED
  BY <1>3, <1>4 DEF SweepThrows

LEMMA SweepSendsPreserves ==
  ASSUME IInv, SweepSends
  PROVE  IInv'
<1> USE DEF connectionVars, githubVars, rowVars
<1>1. /\ sweep.pc = "send"
      /\ UNCHANGED <<connectionVars, githubVars, rowVars, aged, request, pullRequest, late>>
  BY DEF SweepSends
<1>2. sweep' = [pc |-> "mark", sends |-> sweep.sends, skips |-> sweep.skips,
                events |-> sweep.events, marked |-> {}, tries |-> 0]
  BY DEF SweepSends, Sweep
<1>3. sweep.events \in SUBSET Reviews /\ sweep.events \subseteq Asked
  BY DEF IInv, TypeOK, SweepStates, SweepInv
<1>4. /\ InngestInv' /\ seen' \subseteq Rows \X Shas /\ started' \in [Reviews -> Nat]
      /\ seen \subseteq seen' /\ \A e \in sweep.events : PrKey(e) \in seen'
  BY <1>1, <1>3, AcceptFrame DEF SweepSends, Accept
<1>5. sweep' \in SweepStates
  BY <1>2 DEF IInv, TypeOK, SweepStates
<1>6. TypeOK'
  BY <1>1, <1>4, <1>5 DEF IInv, TypeOK, ConnectionsTypeOK, GithubTypeOK
<1>7. EventInv' /\ RequestInv' /\ OwnerInv'
  BY <1>1 DEF IInv, EventInv, RequestInv, OwnerInv, At, Delivery, Owns, Inserted
<1>8. PayloadInv' /\ DispatchedInv'
  BY <1>1, <1>4 DEF IInv, PayloadInv, DispatchedInv, Owns, At, PrKey
<1>9. SweepInv'
  BY <1>1, <1>2, <1>4 DEF IInv, SweepInv, Asked, PrKey
<1>10. PullRequestInv'
  BY <1>1 DEF IInv, PullRequestInv, Asked, At
<1> QED
  BY <1>4, <1>6, <1>7, <1>8, <1>9, <1>10 DEF IInv

LEMMA SweepMarksPreserves ==
  ASSUME IInv, NEW d \in Deliveries, SweepMarks(d)
  PROVE  IInv'
<1> USE DEF connectionVars, githubVars, rowVars, inngestVars
<1>1. PICK s \in {"DISPATCHED", "IGNORED", "FAILED"} :
        /\ s # "IGNORED"
        /\ rows' = [rows EXCEPT ![d].status = s]
        /\ s = "DISPATCHED" => d \in sweep.sends
        /\ s = "FAILED" => d \in sweep.skips
  BY DEF SweepMarks
<1>2. /\ sweep.pc = "mark"
      /\ UNCHANGED <<connectionVars, githubVars, created, aged, request, pullRequest,
                     inngestVars>>
  BY DEF SweepMarks
<1>3. sweep' = [pc |-> "mark", sends |-> sweep.sends, skips |-> sweep.skips,
                events |-> sweep.events, marked |-> sweep.marked \cup {d},
                tries |-> sweep.tries]
  BY DEF SweepMarks, Sweep
<1>4. rows[d].status # "ABSENT"
  BY <1>1 DEF IInv, SweepInv, OwnerInv
<1>5. /\ rows' \in [Deliveries -> WebhookEvents]
      /\ \A c \in Deliveries :
           /\ rows'[c].payload = rows[c].payload
           /\ rows'[c].status = IF c = d THEN s ELSE rows[c].status
      /\ Asked' = Asked
      /\ Inserted' = Inserted
  BY <1>1, <1>4, StatusFrame
<1>6. sweep' \in SweepStates
  BY <1>3 DEF IInv, TypeOK, SweepStates
<1>7. TypeOK'
  BY <1>2, <1>5, <1>6 DEF IInv, TypeOK, ConnectionsTypeOK, GithubTypeOK
<1>8. EventInv' /\ RequestInv' /\ InngestInv'
  BY <1>2, <1>5 DEF IInv, EventInv, RequestInv, InngestInv, At, Delivery
<1>9. OwnerInv'
  BY <1>2, <1>4, <1>5 DEF IInv, OwnerInv, Owns
<1>10. PayloadInv'
  BY <1>2, <1>5 DEF IInv, PayloadInv, Owns, At
<1>11. SweepInv'
  <2>1. sweep.sends \subseteq Deliveries /\ sweep.skips \subseteq Deliveries
    BY DEF IInv, TypeOK, SweepStates
  <2> QED
    BY <1>2, <1>3, <1>5, <2>1 DEF IInv, SweepInv, PrKey
<1>12. PullRequestInv'
  BY <1>2, <1>5 DEF IInv, PullRequestInv, At
<1>13. DispatchedInv'
  <2> SUFFICES ASSUME NEW c \in Deliveries, rows'[c].status = "DISPATCHED"
               PROVE  rows[c].payload # {} /\ \A e \in rows[c].payload : PrKey(e) \in seen
    BY <1>2, <1>5 DEF DispatchedInv, PrKey
  <2>1. CASE c # d
    BY <1>5, <2>1 DEF IInv, DispatchedInv
  <2>2. CASE c = d
    BY <1>1, <1>2, <1>5, <2>2 DEF IInv, SweepInv
  <2> QED
    BY <2>1, <2>2
<1> QED
  BY <1>7, <1>8, <1>9, <1>10, <1>11, <1>12, <1>13 DEF IInv
-----------------------------------------------------------------------------
LEMMA InitIInv == Init => IInv
<1> SUFFICES ASSUME Init PROVE IInv
  OBVIOUS
<1>1. TypeOK
  <2>1. ConnectionsTypeOK
    BY DEF Init, ConnectionsInit, ConnectionsTypeOK, ConnectionStatuses
  <2>2. GithubTypeOK
    BY Constants DEF Init, GithubInit, GithubTypeOK, PullRequests
  <2>3. NoRow \in WebhookEvents /\ Idle \in RequestStates /\ Asleep \in SweepStates
    BY Constants DEF NoRow, WebhookEvents, Idle, RequestStates, Asleep, SweepStates
  <2> QED
    BY <2>1, <2>2, <2>3, Constants DEF Init, TypeOK
<1>2. EventInv /\ RequestInv
  BY Constants DEF Init, GithubInit, EventInv, RequestInv, At, Idle
<1>3. OwnerInv /\ PayloadInv
  <2>1. Inserted = {}
    BY DEF Init, Inserted, NoRow
  <2> QED
    BY <2>1, FS_EmptySet DEF Init, OwnerInv, PayloadInv, Owns, Idle, NoRow
<1>4. Asked = {}
  BY DEF Init, Asked, NoRow
<1>5. InngestInv /\ SweepInv
  BY <1>1, <1>4 DEF Init, InngestInv, SweepInv, Asleep
<1>6. PullRequestInv /\ DispatchedInv
  BY <1>4 DEF Init, PullRequestInv, DispatchedInv, Idle, NoRow
<1> QED
  BY <1>1, <1>2, <1>3, <1>5, <1>6 DEF IInv

LEMMA StutterPreserves ==
  ASSUME IInv, UNCHANGED vars
  PROVE  IInv'
<1> USE DEF vars, connectionVars, githubVars, rowVars, inngestVars
<1>1. TypeOK'
  BY DEF IInv, TypeOK, ConnectionsTypeOK, GithubTypeOK
<1>2. EventInv' /\ RequestInv' /\ OwnerInv' /\ PayloadInv'
  BY DEF IInv, EventInv, RequestInv, OwnerInv, PayloadInv, At, Delivery, Owns, Inserted
<1>3. InngestInv' /\ SweepInv' /\ PullRequestInv' /\ DispatchedInv'
  BY DEF IInv, InngestInv, SweepInv, PullRequestInv, DispatchedInv, Asked, At
<1> QED
  BY <1>1, <1>2, <1>3 DEF IInv

LEMMA NextIInv == IInv /\ [Next]_vars => IInv'
<1> SUFFICES ASSUME IInv, [Next]_vars PROVE IInv'
  OBVIOUS
<1>1. CASE UNCHANGED vars
  BY <1>1, StutterPreserves
<1>2. CASE UserStep
  BY <1>2, UserStepPreserves
<1>3. CASE GithubStep
  BY <1>3, GithubStepPreserves
<1>4. CASE AcceptLate
  BY <1>4, AcceptLatePreserves
<1>5. ASSUME NEW q \in Requests, NEW d \in Deliveries, Receive(q, d) PROVE IInv'
  BY <1>5, ReceivePreserves
<1>6. ASSUME NEW q \in Requests, RequestStep(q) PROVE IInv'
  BY <1>6, InsertPendingPreserves, ResolvePreserves, UpsertMinimalPreserves,
     SavePendingDispatchPayloadPreserves, SendAcceptedPreserves, SendUnansweredPreserves,
     MarkPreserves, SyncPreserves DEF RequestStep
<1>7. ASSUME NEW q \in Requests, RequestDies(q) PROVE IInv'
  BY <1>7, EndsPreserves DEF RequestDies
<1>8. CASE Age
  BY <1>8, AgePreserves
<1>9. CASE SweepStep
  BY <1>9, SweepFindsPreserves, SweepSendsPreserves, SweepMarksPreserves, SweepEndsPreserves
     DEF SweepStep
<1>10. CASE SweepThrows
  BY <1>10, SweepThrowsPreserves
<1> QED
  BY <1>1, <1>2, <1>3, <1>4, <1>5, <1>6, <1>7, <1>8, <1>9, <1>10 DEF Next
-----------------------------------------------------------------------------
(* The threshold keeps the sweeper off the rows of live requests.          *)

(* Steps that only let go of rows.                                         *)
LEMMA QuietTimedInv ==
  ASSUME IInv, TimedInv, UNCHANGED <<rows, aged>>,
         \A q \in Requests, d \in Deliveries : Owns(q, d)' => Owns(q, d),
         sweep'.sends \subseteq sweep.sends, sweep'.skips \subseteq sweep.skips
  PROVE  TimedInv'
BY DEF TimedInv

LEMMA OwnsOnly ==
  ASSUME IInv, NEW q \in Requests, NEW pc, NEW todo, NEW events,
         request[q].pc \notin {"idle", "insert"}, Becomes(q, pc, todo, events)
  PROVE  \A p \in Requests, d \in Deliveries : Owns(p, d)' => Owns(p, d)
<1> SUFFICES ASSUME NEW p \in Requests, NEW d \in Deliveries, Owns(p, d)'
             PROVE  Owns(p, d)
  OBVIOUS
<1>1. CASE p = q
  BY <1>1 DEF Becomes, Owns, IInv, TypeOK
<1>2. CASE p # q
  BY <1>2 DEF Becomes, Owns, IInv, TypeOK
<1> QED
  BY <1>1, <1>2

LEMMA NoSweepOfOwned ==
  ASSUME IInv, TimedInv, NEW q \in Requests, NEW d \in Deliveries, Owns(q, d)
  PROVE  d \notin sweep.sends /\ d \notin sweep.skips
<1>1. rows[d].at \in Nat /\ aged \in Nat
  BY Constants DEF IInv, TypeOK, WebhookEvents
<1> QED
  BY <1>1 DEF TimedInv

LEMMA InsertPendingTimed ==
  ASSUME IInv, TimedInv, NEW q \in Requests, InsertPending(q)
  PROVE  TimedInv'
<1> DEFINE d == request[q].d
<1>1. d \in Deliveries /\ UNCHANGED <<aged, sweep>>
  BY Constants DEF InsertPending, At, IInv, TypeOK, GithubTypeOK, RequestInv, Deliveries
<1>2. CASE Ends(q) /\ UNCHANGED rows
  <2>1. \A p \in Requests, c \in Deliveries : Owns(p, c)' => Owns(p, c)
    BY <1>2, EndsFrame DEF InsertPending, githubVars
  <2> QED
    BY <1>1, <1>2, <2>1, QuietTimedInv
<1>3. CASE /\ rows[d].status = "ABSENT"
           /\ rows' = [rows EXCEPT ![d] =
                [status |-> "PENDING", payload |-> {}, at |-> created + 1]]
           /\ request' = [request EXCEPT ![q] =
                [pc |-> FirstStep(Delivery(q)), d |-> d, todo |-> request[q].todo,
                 events |-> request[q].events]]
  <2>1. created + 1 > aged
    BY Constants DEF IInv, TypeOK
  <2>2. \A p \in Requests, c \in Deliveries : Owns(p, c)' => c = d \/ (c # d /\ Owns(p, c))
    <3> SUFFICES ASSUME NEW p \in Requests, NEW c \in Deliveries, Owns(p, c)', c # d
                 PROVE  Owns(p, c)
      OBVIOUS
    <3>1. CASE p = q
      BY <1>3, <3>1 DEF Owns, IInv, TypeOK
    <3>2. CASE p # q
      BY <1>3, <3>2 DEF Owns, IInv, TypeOK
    <3> QED
      BY <3>1, <3>2
  <2>3. d \notin sweep.sends /\ d \notin sweep.skips
    BY <1>3 DEF TimedInv
  <2>4. sweep.sends \subseteq Deliveries /\ sweep.skips \subseteq Deliveries
    BY DEF IInv, TypeOK, SweepStates
  <2>5. /\ rows'[d].status = "PENDING" /\ rows'[d].at = created + 1
        /\ \A c \in Deliveries : c # d => rows'[c] = rows[c]
    BY <1>1, <1>3 DEF IInv, TypeOK
  <2> QED
    BY <1>1, <2>1, <2>2, <2>3, <2>4, <2>5 DEF TimedInv
<1> QED
  BY <1>2, <1>3 DEF InsertPending, Goto, Becomes, rowVars

LEMMA SavePendingDispatchPayloadTimed ==
  ASSUME IInv, TimedInv, NEW q \in Requests, SavePendingDispatchPayload(q)
  PROVE  TimedInv'
<1> DEFINE d == request[q].d
<1>1. /\ request[q].pc = "save" /\ UNCHANGED <<aged, sweep>>
      /\ rows' = [rows EXCEPT ![d].payload = request[q].events]
  BY DEF SavePendingDispatchPayload, At
<1>2. d \in Deliveries /\ Owns(q, d)
  BY <1>1, OwnRow
<1>3. /\ \A c \in Deliveries : rows'[c].status = rows[c].status /\ rows'[c].at = rows[c].at
      /\ \A c \in Deliveries : c # d => rows'[c].payload = rows[c].payload
  BY <1>1, <1>2 DEF IInv, TypeOK, WebhookEvents
<1>4. \A p \in Requests, c \in Deliveries : Owns(p, c)' => Owns(p, c)
  BY <1>1, OwnsOnly DEF SavePendingDispatchPayload, Goto, Becomes
<1>5. d \notin sweep.sends /\ d \notin sweep.skips /\ rows[d].status = "PENDING"
  BY <1>2, NoSweepOfOwned DEF TimedInv
<1>6. sweep.sends \subseteq Deliveries /\ sweep.skips \subseteq Deliveries
  BY DEF IInv, TypeOK, SweepStates
<1> HIDE DEF d
<1> QED
  BY <1>1, <1>3, <1>4, <1>5, <1>6 DEF TimedInv

LEMMA MarkTimed ==
  ASSUME IInv, TimedInv, NEW q \in Requests,
         MarkDispatched(q) \/ MarkIgnored(q) \/ MarkFailed(q)
  PROVE  TimedInv'
<1> DEFINE d == request[q].d
<1>1. PICK s \in {"DISPATCHED", "IGNORED", "FAILED"} :
        /\ rows' = [rows EXCEPT ![d].status = s]
        /\ s # "DISPATCHED" => request[q].pc \in {"mark-ignored", "mark-failed"}
        /\ request[q].pc \in {"mark-dispatched", "mark-ignored", "mark-failed"}
        /\ Ends(q)
        /\ UNCHANGED <<emitted, event, aged, sweep>>
  <2>1. CASE MarkDispatched(q)
    BY <2>1 DEF MarkDispatched, Mark, At, githubVars
  <2>2. CASE MarkIgnored(q)
    BY <2>2 DEF MarkIgnored, Mark, At, githubVars
  <2>3. CASE MarkFailed(q)
    BY <2>3 DEF MarkFailed, Mark, At, githubVars
  <2> QED BY <2>1, <2>2, <2>3
<1>2. d \in Deliveries /\ Owns(q, d) /\ rows[d].status # "ABSENT"
  BY <1>1, OwnRow
<1>3. \A c \in Deliveries :
        /\ rows'[c].payload = rows[c].payload
        /\ rows'[c].at = rows[c].at
        /\ rows'[c].status = IF c = d THEN s ELSE rows[c].status
  <2>1. rows' = [rows EXCEPT ![d].status = s]
    BY <1>1
  <2> HIDE DEF d
  <2> QED BY <1>2, <2>1, StatusFrame
<1>4. \A p \in Requests, c \in Deliveries : Owns(p, c)' => p # q /\ Owns(p, c)
  BY <1>1, EndsFrame
<1>5. \A p \in Requests, c \in Deliveries : Owns(p, c)' => c # d
  BY <1>2, <1>4 DEF IInv, OwnerInv
<1>6. d \notin sweep.sends /\ d \notin sweep.skips
  BY <1>2, NoSweepOfOwned
<1>7. s # "DISPATCHED" => rows[d].payload = {}
  BY <1>1, <1>2 DEF IInv, PayloadInv
<1>8. sweep.sends \subseteq Deliveries /\ sweep.skips \subseteq Deliveries
  BY DEF IInv, TypeOK, SweepStates
<1> HIDE DEF d
<1> QED
  BY <1>1, <1>3, <1>4, <1>5, <1>6, <1>7, <1>8 DEF TimedInv

LEMMA AgeTimed ==
  ASSUME SLOW_REQUESTS = FALSE, IInv, TimedInv, Age
  PROVE  TimedInv'
<1>1. /\ aged' = aged + 1
      /\ UNCHANGED <<rows, request, sweep>>
      /\ \A d \in Deliveries, q \in Requests : Owns(q, d) => rows[d].at # aged + 1
  BY DEF Age, rowVars
<1>2. aged \in Nat /\ \A d \in Deliveries : rows[d].at \in Nat
  BY Constants DEF IInv, TypeOK, WebhookEvents
<1>3. \A d \in sweep.sends \cup sweep.skips : d \in Deliveries
  BY DEF IInv, TypeOK, SweepStates
<1>4. ASSUME NEW q \in Requests, NEW d \in Deliveries, Owns(q, d)
      PROVE  rows[d].at > aged + 1
  BY <1>1, <1>2, <1>4 DEF TimedInv
<1> QED
  BY <1>1, <1>2, <1>3, <1>4 DEF TimedInv, Owns

LEMMA SweepFindsTimed ==
  ASSUME IInv, TimedInv, SweepFinds
  PROVE  TimedInv'
<1>1. UNCHANGED <<rows, aged, request>>
  BY DEF SweepFinds, rowVars
<1>2. sweep'.sends = Sendable(Batch) /\ sweep'.skips = Skips(Batch)
  BY DEF SweepFinds
<1>3. /\ \A d \in Sendable(Batch) \cup Skips(Batch) :
           d \in Deliveries /\ rows[d].status = "PENDING" /\ rows[d].at <= aged
      /\ \A d \in Skips(Batch) : rows[d].payload = {}
  BY DEF Sendable, Skips, Batch, PendingOlderThanThreshold
<1> QED
  BY <1>1, <1>2, <1>3 DEF TimedInv, Owns

LEMMA SweepMarksTimed ==
  ASSUME IInv, TimedInv, NEW d \in Deliveries, SweepMarks(d)
  PROVE  TimedInv'
<1>1. PICK s \in {"DISPATCHED", "IGNORED", "FAILED"} :
        /\ s # "IGNORED"
        /\ rows' = [rows EXCEPT ![d].status = s]
        /\ s = "DISPATCHED" => d \in sweep.sends
        /\ s = "FAILED" => d \in sweep.skips
  BY DEF SweepMarks
<1>2. UNCHANGED <<aged, request>> /\ sweep'.sends = sweep.sends /\ sweep'.skips = sweep.skips
  BY DEF SweepMarks, Sweep
<1>3. rows[d].status # "ABSENT"
  BY <1>1 DEF TimedInv
<1>4. \A c \in Deliveries :
        /\ rows'[c].payload = rows[c].payload
        /\ rows'[c].at = rows[c].at
        /\ rows'[c].status = IF c = d THEN s ELSE rows[c].status
  BY <1>1, <1>3, StatusFrame
<1>5. \A q \in Requests : ~Owns(q, d)
  BY <1>1, NoSweepOfOwned
<1>6. sweep.sends \subseteq Deliveries /\ sweep.skips \subseteq Deliveries
  BY DEF IInv, TypeOK, SweepStates
<1>7. sweep.sends \cap sweep.skips = {}
  BY DEF IInv, SweepInv
<1> QED
  BY <1>1, <1>2, <1>4, <1>5, <1>6, <1>7 DEF TimedInv, Owns

(* A step of the sweep that forgets, or keeps, the rows it was about.      *)
LEMMA SweepOnTimed ==
  ASSUME IInv, TimedInv, SweepSends \/ SweepEnds \/ SweepThrows
  PROVE  TimedInv'
<1>1. UNCHANGED <<rows, aged, request>>
  BY DEF SweepSends, SweepEnds, SweepThrows, rowVars
<1>2. sweep'.sends \subseteq sweep.sends /\ sweep'.skips \subseteq sweep.skips
  <2>1. CASE sweep' = Asleep
    BY <2>1 DEF Asleep
  <2>2. CASE sweep' # Asleep
    BY <2>2 DEF SweepSends, SweepEnds, SweepThrows, Sweep
  <2> QED
    BY <2>1, <2>2
<1> QED
  BY <1>1, <1>2, QuietTimedInv DEF Owns

LEMMA RequestStepTimed ==
  ASSUME IInv, TimedInv, NEW q \in Requests, RequestStep(q)
  PROVE  TimedInv'
<1>1. CASE InsertPending(q)
  BY <1>1, InsertPendingTimed
<1>2. CASE SavePendingDispatchPayload(q)
  BY <1>2, SavePendingDispatchPayloadTimed
<1>3. CASE MarkDispatched(q) \/ MarkIgnored(q) \/ MarkFailed(q)
  BY <1>3, MarkTimed
<1>4. CASE SendUnanswered(q)
  <2>1. \A p \in Requests, d \in Deliveries : Owns(p, d)' => Owns(p, d)
    BY <1>4, EndsFrame DEF SendUnanswered, githubVars
  <2> QED
    BY <1>4, <2>1, QuietTimedInv DEF SendUnanswered, rowVars
<1>5. CASE Resolve(q) \/ UpsertMinimal(q) \/ SendAccepted(q) \/ SyncInstallation(q)
             \/ SyncRepositories(q)
  <2>1. request[q].pc \notin {"idle", "insert"} /\ UNCHANGED <<rows, aged, sweep>>
    BY <1>5 DEF Resolve, UpsertMinimal, SendAccepted, SyncInstallation, SyncRepositories, At,
                rowVars
  <2>2. \E pc, todo, events : Becomes(q, pc, todo, events)
    BY <1>5 DEF Resolve, UpsertMinimal, SendAccepted, SyncInstallation, SyncRepositories, Goto
  <2> QED
    BY <2>1, <2>2, OwnsOnly, QuietTimedInv
<1> QED
  BY <1>1, <1>2, <1>3, <1>4, <1>5 DEF RequestStep

LEMMA NextTimedInv ==
  ASSUME SLOW_REQUESTS = FALSE, IInv, TimedInv, [Next]_vars
  PROVE  TimedInv'
<1>1. CASE UserStep \/ GithubStep \/ AcceptLate \/ UNCHANGED vars
  <2>1. UNCHANGED <<rows, aged, request, sweep>>
    BY <1>1 DEF UserStep, GithubStep, AcceptLate, vars, rowVars
  <2> QED
    BY <2>1, QuietTimedInv DEF Owns
<1>2. ASSUME NEW q \in Requests, NEW d \in Deliveries, Receive(q, d) PROVE TimedInv'
  <2>1. UNCHANGED <<rows, aged, sweep>>
    BY <1>2 DEF Receive, rowVars
  <2>2. request' = [request EXCEPT ![q] = [pc |-> "insert", d |-> d, todo |-> {}, events |-> {}]]
    BY <1>2 DEF Receive
  <2>3. \A p \in Requests, c \in Deliveries : Owns(p, c)' => Owns(p, c)
    BY <2>2 DEF Owns, IInv, TypeOK
  <2> QED
    BY <2>1, <2>3, QuietTimedInv
<1>3. ASSUME NEW q \in Requests, RequestStep(q) PROVE TimedInv'
  BY <1>3, RequestStepTimed
<1>4. ASSUME NEW q \in Requests, RequestDies(q) PROVE TimedInv'
  <2>1. \A p \in Requests, d \in Deliveries : Owns(p, d)' => Owns(p, d)
    BY <1>4, EndsFrame DEF RequestDies, githubVars
  <2> QED
    BY <1>4, <2>1, QuietTimedInv DEF RequestDies, rowVars
<1>5. CASE Age
  BY <1>5, AgeTimed
<1>6. CASE SweepStep \/ SweepThrows
  BY <1>6, SweepFindsTimed, SweepMarksTimed, SweepOnTimed DEF SweepStep
<1> QED
  BY <1>1, <1>2, <1>3, <1>4, <1>5, <1>6 DEF Next
-----------------------------------------------------------------------------
(* Every variable keeps its type, for deliveries handled in any order.     *)
THEOREM TypeCorrect == Spec => []TypeOK
<1>1. Init => IInv
  BY InitIInv
<1>2. IInv /\ [Next]_vars => IInv'
  BY NextIInv
<1>3. IInv => TypeOK
  BY DEF IInv
<1> QED
  BY <1>1, <1>2, <1>3, PTL DEF Spec

LEMMA IInvHolds == Spec => []IInv
<1>1. Init => IInv
  BY InitIInv
<1>2. IInv /\ [Next]_vars => IInv'
  BY NextIInv
<1> QED
  BY <1>1, <1>2, PTL DEF Spec

(* Every review run Inngest starts finds its PullRequest row: ingestion    *)
(* upserts every tenant's row before it saves or sends a review request.   *)
THEOREM ReviewsHavePullRequests == Spec => []ReviewHasPullRequest
<1>1. IInv => ReviewHasPullRequest
  <2> SUFFICES ASSUME IInv, NEW e \in Reviews, started[e] > 0
               PROVE  pullRequest[e.repo] # None
    BY DEF ReviewHasPullRequest
  <2>1. PrKey(e) \in seen
    BY DEF IInv, InngestInv
  <2>2. e \in Asked
    BY <2>1 DEF IInv, InngestInv
  <2> QED
    BY <2>2 DEF IInv, PullRequestInv
<1> QED
  BY <1>1, IInvHolds, PTL

(* While requests finish within the sweeper's threshold: a row's status    *)
(* tells what became of its reviews.                                       *)
THEOREM StatusesAreHonest ==
  ASSUME SLOW_REQUESTS = FALSE
  PROVE  Spec => []StatusIsHonest
<1>1. Init => TimedInv
  BY DEF Init, TimedInv, Owns, Idle, Asleep, NoRow
<1>2. IInv /\ TimedInv /\ [Next]_vars => TimedInv'
  BY NextTimedInv
<1>3. IInv /\ TimedInv => StatusIsHonest
  <2> SUFFICES ASSUME IInv, TimedInv, NEW d \in Deliveries
               PROVE  StatusIsHonest!(d)
    BY DEF StatusIsHonest
  <2>1. rows[d].payload \subseteq Reviews
    BY DEF IInv, TypeOK, WebhookEvents
  <2>2. rows[d].status = "DISPATCHED" =>
          rows[d].payload # {} /\ \A e \in rows[d].payload : started[e] > 0
    BY <2>1 DEF IInv, DispatchedInv, InngestInv
  <2> QED
    BY <2>2 DEF TimedInv
<1> QED
  BY <1>1, <1>2, <1>3, IInvHolds, PTL DEF Spec

(* While requests finish within the sweeper's threshold: a settled row     *)
(* keeps its status, although none of the updates looks at it.             *)
THEOREM SettledRowsStaySettled ==
  ASSUME SLOW_REQUESTS = FALSE
  PROVE  Spec => SettledStaysSettled
<1> DEFINE Step == \A d \in Deliveries :
             rows[d].status \notin {"ABSENT", "PENDING"} => rows'[d].status = rows[d].status
<1>1. Init => TimedInv
  BY DEF Init, TimedInv, Owns, Idle, Asleep, NoRow
<1>2. IInv /\ TimedInv /\ [Next]_vars => TimedInv'
  BY NextTimedInv
<1>3. IInv /\ TimedInv /\ [Next]_vars => [Step]_vars
  <2> SUFFICES ASSUME IInv, TimedInv, Next PROVE Step
    OBVIOUS
  <2>1. CASE UNCHANGED rows
    BY <2>1
  <2>2. ASSUME NEW q \in Requests, InsertPending(q) PROVE Step
    <3>1. \/ UNCHANGED rows
          \/ /\ rows[request[q].d].status = "ABSENT"
             /\ rows' = [rows EXCEPT ![request[q].d] =
                  [status |-> "PENDING", payload |-> {}, at |-> created + 1]]
      BY <2>2 DEF InsertPending, rowVars
    <3> QED
      BY <3>1 DEF IInv, TypeOK
  <2>3. ASSUME NEW q \in Requests, SavePendingDispatchPayload(q) PROVE Step
    BY <2>3 DEF SavePendingDispatchPayload, IInv, TypeOK, WebhookEvents
  <2>4. ASSUME NEW q \in Requests, MarkDispatched(q) \/ MarkIgnored(q) \/ MarkFailed(q)
        PROVE  Step
    <3>1. PICK s \in {"DISPATCHED", "IGNORED", "FAILED"} :
            /\ rows' = [rows EXCEPT ![request[q].d].status = s]
            /\ request[q].pc \in {"mark-dispatched", "mark-ignored", "mark-failed"}
      BY <2>4 DEF MarkDispatched, MarkIgnored, MarkFailed, Mark, At
    <3>2. request[q].d \in Deliveries /\ Owns(q, request[q].d)
      BY <3>1, OwnRow
    <3>3. rows[request[q].d].status = "PENDING"
      BY <3>2 DEF TimedInv
    <3>4. \A c \in Deliveries :
            rows'[c].status = IF c = request[q].d THEN s ELSE rows[c].status
      BY <3>1, <3>2 DEF IInv, TypeOK, WebhookEvents
    <3> QED
      BY <3>3, <3>4
  <2>5. ASSUME NEW d \in Deliveries, SweepMarks(d) PROVE Step
    <3>1. PICK s \in {"DISPATCHED", "IGNORED", "FAILED"} :
            /\ rows' = [rows EXCEPT ![d].status = s]
            /\ s # "IGNORED"
            /\ s = "DISPATCHED" => d \in sweep.sends
            /\ s = "FAILED" => d \in sweep.skips
      BY <2>5 DEF SweepMarks
    <3>2. rows[d].status \in {"PENDING", s}
      BY <3>1 DEF TimedInv
    <3>3. \A c \in Deliveries : rows'[c].status = IF c = d THEN s ELSE rows[c].status
      BY <3>1 DEF IInv, TypeOK, WebhookEvents
    <3> QED
      BY <3>2, <3>3
  <2>6. \/ UNCHANGED rows
        \/ \E q \in Requests : InsertPending(q) \/ SavePendingDispatchPayload(q)
             \/ MarkDispatched(q) \/ MarkIgnored(q) \/ MarkFailed(q)
        \/ \E d \in Deliveries : SweepMarks(d)
    BY DEF Next, UserStep, GithubStep, AcceptLate, Receive, RequestStep, Resolve, UpsertMinimal,
           SendAccepted, SendUnanswered, SyncInstallation, SyncRepositories, RequestDies, Age,
           SweepStep, SweepFinds, SweepSends, SweepEnds, SweepThrows, rowVars
  <2> QED
    BY <2>1, <2>2, <2>3, <2>4, <2>5, <2>6
<1> QED
  BY <1>1, <1>2, <1>3, IInvHolds, PTL DEF Spec, SettledStaysSettled

(* Nothing GitHub reports, in whatever order, undoes a user's disconnect.  *)
THEOREM DisconnectsStay == Spec => DisconnectStays
<1> DEFINE Step == \A t \in Rows :
             connection[t] = "DISCONNECTED" => connection'[t] = "DISCONNECTED"
<1>1. IInv /\ [Next]_vars => [Step]_vars
  <2> SUFFICES ASSUME IInv, Next PROVE Step
    OBVIOUS
  <2>1. CASE UNCHANGED connection
    BY <2>1
  <2>2. CASE UserStep
    BY <2>2 DEF UserStep, ConnectRepository, NotAlreadyConnected, DisconnectRepository,
                SoftDeleteProject, IInv, TypeOK, ConnectionsTypeOK
  <2>3. ASSUME NEW q \in Requests, SyncRepositories(q) PROVE Step
    BY <2>3 DEF SyncRepositories, MarkAccessLost, RestoreActive, MovesRows
  <2>4. \/ UNCHANGED connection
        \/ UserStep
        \/ \E q \in Requests : SyncRepositories(q)
    BY DEF Next, GithubStep, AcceptLate, Receive, RequestStep, InsertPending, Resolve,
           UpsertMinimal, SavePendingDispatchPayload, SendAccepted, SendUnanswered,
           MarkDispatched, MarkIgnored, MarkFailed, Mark, SyncInstallation, RequestDies, Age,
           SweepStep, SweepFinds, SweepSends, SweepMarks, SweepEnds, SweepThrows, connectionVars
  <2> QED
    BY <2>1, <2>2, <2>3, <2>4
<1> QED
  BY <1>1, IInvHolds, PTL DEF Spec, DisconnectStays
-----------------------------------------------------------------------------
(* Ingestion implements ReviewRequests: saving the payload asks for the    *)
(* reviews, and an accepted send starts those Inngest has not seen.        *)

LEMMA AcceptStarts ==
  ASSUME IInv, NEW es \in SUBSET Reviews, es \subseteq Asked, Accept(es), UNCHANGED rows
  PROVE  Promise!Next
<1>1. PICK new \in SUBSET Starts(es) :
        started' = [e \in Reviews |-> started[e] + IF e \in new THEN 1 ELSE 0]
  BY DEF Accept
<1>2. new \in SUBSET Reviews /\ new \subseteq Asked
  BY DEF Starts
<1>3. \A e \in new : started[e] = 0
  BY <1>2 DEF Starts, IInv, InngestInv
<1>4. started' = [e \in Reviews |-> IF e \in new THEN 1 ELSE started[e]]
  BY <1>1, <1>3 DEF IInv, TypeOK
<1>5. Asked' = Asked
  BY DEF Asked
<1>6. Promise!Start(new)
  BY <1>2, <1>3, <1>4, <1>5 DEF Promise!Start
<1> QED
  BY <1>2, <1>6 DEF Promise!Next

LEMMA SaveRequests ==
  ASSUME IInv, NEW q \in Requests, SavePendingDispatchPayload(q)
  PROVE  Promise!Next
<1> DEFINE d == request[q].d
           events == request[q].events
<1>1. /\ request[q].pc = "save" /\ UNCHANGED started
      /\ rows' = [rows EXCEPT ![d].payload = events]
  BY DEF SavePendingDispatchPayload, At, inngestVars
<1>2. d \in Deliveries /\ rows[d].payload = {} /\ events \in SUBSET Reviews
  BY <1>1, OwnRow DEF IInv, PayloadInv, TypeOK, RequestStates
<1>3. /\ \A c \in Deliveries : c # d => rows'[c].payload = rows[c].payload
      /\ rows'[d].payload = events
  BY <1>1, <1>2 DEF IInv, TypeOK, WebhookEvents
<1>4. Asked' = Asked \cup events
  BY <1>2, <1>3 DEF Asked
<1> QED
  BY <1>1, <1>2, <1>4 DEF Promise!Next, Promise!Request

LEMMA StatusStutters ==
  ASSUME IInv, NEW d \in Deliveries, NEW s \in {"DISPATCHED", "IGNORED", "FAILED"},
         rows[d].status # "ABSENT", rows' = [rows EXCEPT ![d].status = s]
  PROVE  Asked' = Asked
BY StatusFrame

(* Redelivered, swept, timed out and late sends included: every review is  *)
(* started at most once, and only when a WebhookEvent row asks for it.     *)
THEOREM IngestionImplementsReviewRequests == Spec => ImplementsReviewRequests
<1>1. Init => Promise!Init
  BY DEF Init, Promise!Init, Asked, NoRow
<1>2. IInv /\ [Next]_vars => [Promise!Next]_<<Asked, started>>
  <2> SUFFICES ASSUME IInv, [Next]_vars
               PROVE  Promise!Next \/ UNCHANGED <<Asked, started>>
    OBVIOUS
  <2>1. CASE UNCHANGED <<rows, started>>
    BY <2>1 DEF Asked
  <2>2. ASSUME NEW q \in Requests, InsertPending(q)
        PROVE  UNCHANGED <<Asked, started>>
    <3> DEFINE d == request[q].d
    <3>1. /\ UNCHANGED started
          /\ \/ UNCHANGED rows
             \/ /\ rows[d].status = "ABSENT"
                /\ rows' = [rows EXCEPT ![d] =
                     [status |-> "PENDING", payload |-> {}, at |-> created + 1]]
      BY <2>2 DEF InsertPending, rowVars, inngestVars
    <3>2. rows[d].status = "ABSENT" /\ d \in Deliveries => rows[d].payload = {}
      BY DEF IInv, OwnerInv
    <3> QED
      BY <3>1, <3>2 DEF Asked, IInv, TypeOK
  <2>3. ASSUME NEW q \in Requests, SavePendingDispatchPayload(q) PROVE Promise!Next
    BY <2>3, SaveRequests
  <2>4. ASSUME NEW q \in Requests, SendAccepted(q) PROVE Promise!Next
    <3>1. request[q].pc = "send" /\ request[q].events \in SUBSET Reviews
      BY <2>4 DEF SendAccepted, At, IInv, TypeOK, RequestStates
    <3>2. request[q].events \subseteq Asked
      BY <3>1, OwnRow DEF IInv, PayloadInv, Asked
    <3> QED
      BY <2>4, <3>1, <3>2, AcceptStarts DEF SendAccepted, Accept, rowVars
  <2>5. ASSUME NEW q \in Requests, MarkDispatched(q) \/ MarkIgnored(q) \/ MarkFailed(q)
        PROVE  UNCHANGED <<Asked, started>>
    <3>1. PICK s \in {"DISPATCHED", "IGNORED", "FAILED"} :
            /\ rows' = [rows EXCEPT ![request[q].d].status = s]
            /\ request[q].pc \in {"mark-dispatched", "mark-ignored", "mark-failed"}
            /\ UNCHANGED started
      BY <2>5 DEF MarkDispatched, MarkIgnored, MarkFailed, Mark, At, inngestVars
    <3> QED
      BY <3>1, OwnRow, StatusStutters
  <2>6. ASSUME NEW d \in Deliveries, SweepMarks(d) PROVE UNCHANGED <<Asked, started>>
    <3>1. PICK s \in {"DISPATCHED", "IGNORED", "FAILED"} :
            rows' = [rows EXCEPT ![d].status = s] /\ UNCHANGED started
      BY <2>6 DEF SweepMarks, inngestVars
    <3>2. rows[d].status # "ABSENT"
      BY <2>6 DEF SweepMarks, IInv, SweepInv, OwnerInv
    <3> QED
      BY <3>1, <3>2, StatusStutters
  <2>7. CASE AcceptLate
    <3>1. PICK es \in late : Accept(es)
      BY <2>7 DEF AcceptLate
    <3>2. es \in SUBSET Reviews /\ es \subseteq Asked /\ UNCHANGED rows
      BY <2>7, <3>1 DEF AcceptLate, rowVars, IInv, TypeOK, InngestInv
    <3> QED
      BY <3>1, <3>2, AcceptStarts
  <2>8. CASE SweepSends
    <3>1. sweep.events \in SUBSET Reviews /\ sweep.events \subseteq Asked /\ UNCHANGED rows
      BY <2>8 DEF SweepSends, rowVars, IInv, TypeOK, SweepStates, SweepInv
    <3> QED
      BY <2>8, <3>1, AcceptStarts DEF SweepSends, Accept
  <2>9. \/ UNCHANGED <<rows, started>>
        \/ \E q \in Requests : InsertPending(q) \/ SavePendingDispatchPayload(q)
             \/ SendAccepted(q) \/ MarkDispatched(q) \/ MarkIgnored(q) \/ MarkFailed(q)
        \/ \E d \in Deliveries : SweepMarks(d)
        \/ AcceptLate \/ SweepSends
    BY DEF Next, vars, UserStep, GithubStep, Receive, RequestStep, Resolve, UpsertMinimal,
           SendUnanswered, SyncInstallation, SyncRepositories, RequestDies, Age, SweepStep,
           SweepFinds, SweepEnds, SweepThrows, rowVars, inngestVars
  <2> QED
    BY <2>1, <2>2, <2>3, <2>4, <2>5, <2>6, <2>7, <2>8, <2>9
<1> QED
  BY <1>1, <1>2, IInvHolds, PTL DEF Spec, ImplementsReviewRequests, Promise!Spec
-----------------------------------------------------------------------------
(* What does not rest on the sweeper's threshold.                          *)

(* A row that says DISPATCHED has reviews, and each was started, once.     *)
DispatchedReviewsStarted ==
  \A d \in Deliveries : rows[d].status = "DISPATCHED" =>
    rows[d].payload # {} /\ \A e \in rows[d].payload : started[e] = 1

(* Reviews that a row asks for are asked for as long as the row exists: no *)
(* redelivery, sweep or late request replaces them, and no row goes.       *)
RowsKeepTheirReviews ==
  [][\A d \in Deliveries :
       /\ rows[d].payload # {} => rows'[d].payload = rows[d].payload
       /\ rows[d].status # "ABSENT" =>
            rows'[d].status # "ABSENT" /\ rows'[d].at = rows[d].at]_vars

(* Requests that outlive the threshold included: what is shown as          *)
(* dispatched was started.  Only IGNORED and FAILED may then be wrong.     *)
THEOREM DispatchedReviewsAlwaysStarted == Spec => []DispatchedReviewsStarted
<1>1. IInv => DispatchedReviewsStarted
  <2> SUFFICES ASSUME IInv, NEW d \in Deliveries, rows[d].status = "DISPATCHED"
               PROVE  rows[d].payload # {} /\ \A e \in rows[d].payload : started[e] = 1
    BY DEF DispatchedReviewsStarted
  <2>1. rows[d].payload \subseteq Reviews
    BY DEF IInv, TypeOK, WebhookEvents
  <2> QED
    BY <2>1 DEF IInv, DispatchedInv, InngestInv
<1> QED
  BY <1>1, IInvHolds, PTL

(* However late a request or a sweep writes: a row is never inserted again *)
(* and the reviews saved in it are never replaced.                         *)
THEOREM RowsAlwaysKeepTheirReviews == Spec => RowsKeepTheirReviews
<1> DEFINE Step == \A d \in Deliveries :
             /\ rows[d].payload # {} => rows'[d].payload = rows[d].payload
             /\ rows[d].status # "ABSENT" =>
                  rows'[d].status # "ABSENT" /\ rows'[d].at = rows[d].at
<1>1. IInv /\ [Next]_vars => [Step]_vars
  <2> SUFFICES ASSUME IInv, Next PROVE Step
    OBVIOUS
  <2>1. CASE UNCHANGED rows
    BY <2>1
  <2>2. ASSUME NEW q \in Requests, InsertPending(q) PROVE Step
    <3>1. \/ UNCHANGED rows
          \/ /\ rows[request[q].d].status = "ABSENT"
             /\ rows' = [rows EXCEPT ![request[q].d] =
                  [status |-> "PENDING", payload |-> {}, at |-> created + 1]]
      BY <2>2 DEF InsertPending, rowVars
    <3> QED
      BY <3>1 DEF IInv, TypeOK, OwnerInv
  <2>3. ASSUME NEW q \in Requests, SavePendingDispatchPayload(q) PROVE Step
    <3>1. request[q].pc = "save" /\ rows' = [rows EXCEPT ![request[q].d].payload = request[q].events]
      BY <2>3 DEF SavePendingDispatchPayload, At
    <3>2. request[q].d \in Deliveries /\ rows[request[q].d].payload = {}
      BY <3>1, OwnRow DEF IInv, PayloadInv
    <3> QED
      BY <3>1, <3>2 DEF IInv, TypeOK, WebhookEvents
  <2>4. ASSUME NEW q \in Requests, MarkDispatched(q) \/ MarkIgnored(q) \/ MarkFailed(q)
        PROVE  Step
    <3>1. PICK s \in {"DISPATCHED", "IGNORED", "FAILED"} :
            rows' = [rows EXCEPT ![request[q].d].status = s]
      BY <2>4 DEF MarkDispatched, MarkIgnored, MarkFailed, Mark
    <3> QED
      BY <3>1 DEF IInv, TypeOK, WebhookEvents
  <2>5. ASSUME NEW d \in Deliveries, SweepMarks(d) PROVE Step
    <3>1. PICK s \in {"DISPATCHED", "FAILED"} : rows' = [rows EXCEPT ![d].status = s]
      BY <2>5 DEF SweepMarks
    <3> QED
      BY <3>1 DEF IInv, TypeOK, WebhookEvents
  <2>6. \/ UNCHANGED rows
        \/ \E q \in Requests : InsertPending(q) \/ SavePendingDispatchPayload(q)
             \/ MarkDispatched(q) \/ MarkIgnored(q) \/ MarkFailed(q)
        \/ \E d \in Deliveries : SweepMarks(d)
    BY DEF Next, UserStep, GithubStep, AcceptLate, Receive, RequestStep, Resolve, UpsertMinimal,
           SendAccepted, SendUnanswered, SyncInstallation, SyncRepositories, RequestDies, Age,
           SweepStep, SweepFinds, SweepSends, SweepEnds, SweepThrows, rowVars
  <2> QED
    BY <2>1, <2>2, <2>3, <2>4, <2>5, <2>6
<1> QED
  BY <1>1, IInvHolds, PTL DEF Spec, RowsKeepTheirReviews
-----------------------------------------------------------------------------
(* Where a review comes from.                                              *)

(* Delivery d asks for the review of e: it reports the head of the GitHub  *)
(* repository e's row stands for, with an action that triggers reviews,    *)
(* and no draft unless the action or the project's settings say so.        *)
Routes(d, e) ==
  /\ event[d] \in PullRequestEvents
  /\ event[d].on = GithubRepoOf[e.repo]
  /\ event[d].pull.sha = e.sha
  /\ event[d].action \in REVIEW_TRIGGERING_ACTIONS
  /\ \/ event[d].action = "ready_for_review"
     \/ ~event[d].pull.draft
     \/ ProjectOf[e.repo] \in ReviewsDrafts

(* Delivery d was recorded, and reported pull request p to row t.          *)
Reported(d, t, p) ==
  /\ d \in 1..emitted
  /\ event[d] \in PullRequestEvents
  /\ event[d].on = GithubRepoOf[t] /\ event[d].pull = p
  /\ rows[d].status # "ABSENT"

(* Inngest runs no review but those a recorded delivery asks for, for a    *)
(* repository row that exists: no event crosses over to another tenant's   *)
(* row, another head or a draft that is not to be reviewed.                *)
OnlyRoutedReviewsStart ==
  \A e \in Reviews : started[e] > 0 =>
    /\ connection[e.repo] # "ABSENT"
    /\ \E d \in 1..emitted : e \in rows[d].payload /\ Routes(d, e)

(* A PullRequest row holds what one recorded delivery of its own GitHub    *)
(* repository reported: heads, states and drafts are never mixed from two  *)
(* deliveries, and never taken from another repository.                    *)
PullRequestsWereReported ==
  \A t \in Rows : pullRequest[t] # None => \E d \in Deliveries : Reported(d, t, pullRequest[t])

(* Everything a request or a row holds was routed from its own delivery.   *)
RoutedFrom(d, es, ts) ==
  /\ \A e \in es : connection[e.repo] # "ABSENT" /\ Routes(d, e)
  /\ \A t \in ts : connection[t] # "ABSENT" /\ event[d].on = GithubRepoOf[t]

RoutingInv ==
  /\ \A q \in Requests : ~At(q, "idle") =>
       RoutedFrom(request[q].d, request[q].events, request[q].todo)
  /\ \A d \in Deliveries : \A e \in rows[d].payload :
       d \in 1..emitted /\ connection[e.repo] # "ABSENT" /\ Routes(d, e)
  /\ PullRequestsWereReported

(* Only these write WebhookEvent rows.                                     *)
LEMMA RowWriters ==
  ASSUME Next
  PROVE  \/ UNCHANGED rows
         \/ \E q \in Requests : InsertPending(q) \/ SavePendingDispatchPayload(q)
              \/ MarkDispatched(q) \/ MarkIgnored(q) \/ MarkFailed(q)
         \/ \E d \in Deliveries : SweepMarks(d)
BY DEF Next, UserStep, GithubStep, AcceptLate, Receive, RequestStep, Resolve, UpsertMinimal,
       SendAccepted, SendUnanswered, SyncInstallation, SyncRepositories, RequestDies, Age,
       SweepStep, SweepFinds, SweepSends, SweepEnds, SweepThrows, rowVars

(* Deliveries, repository rows and WebhookEvent rows stay what they are.   *)
LEMMA HistoryStays ==
  ASSUME IInv, Next
  PROVE  /\ \A d \in 1..emitted : d \in 1..emitted' /\ event'[d] = event[d]
         /\ \A t \in Rows : connection[t] # "ABSENT" => connection'[t] # "ABSENT"
         /\ \A d \in Deliveries : rows[d].status # "ABSENT" => rows'[d].status # "ABSENT"
<1>1. \A d \in 1..emitted : d \in 1..emitted' /\ event'[d] = event[d]
  <2>1. CASE UNCHANGED <<emitted, event>>
    BY <2>1
  <2>2. CASE \E e : Report(e)
    BY <2>2, Constants DEF Report, IInv, TypeOK, GithubTypeOK, Deliveries
  <2>3. UNCHANGED <<emitted, event>> \/ \E e : Report(e)
    <3>1. GithubNext => \E e : Report(e)
      BY DEF GithubNext, PullRequestChanges, RepositoryChanges, InstallationChanges, UnreadableChange
    <3>2. GithubStep \/ UNCHANGED <<emitted, event>>
      BY DEF Next, UserStep, AcceptLate, Receive, RequestStep, InsertPending, Resolve,
             UpsertMinimal, SavePendingDispatchPayload, SendAccepted, SendUnanswered,
             MarkDispatched, MarkIgnored, MarkFailed, Mark, SyncInstallation, SyncRepositories,
             RequestDies, Age, SweepStep, SweepFinds, SweepSends, SweepMarks, SweepEnds,
             SweepThrows, githubVars
    <3> QED BY <3>1, <3>2 DEF GithubStep
  <2> QED BY <2>1, <2>2, <2>3
<1>2. \A t \in Rows : connection[t] # "ABSENT" => connection'[t] # "ABSENT"
  <2>1. CASE UNCHANGED connection
    BY <2>1
  <2>2. CASE UserStep
    BY <2>2 DEF UserStep, ConnectRepository, NotAlreadyConnected, DisconnectRepository,
                SoftDeleteProject, IInv, TypeOK, ConnectionsTypeOK
  <2>3. CASE \E q \in Requests : SyncRepositories(q)
    BY <2>3 DEF SyncRepositories, MarkAccessLost, RestoreActive, MovesRows
  <2>4. UNCHANGED connection \/ UserStep \/ \E q \in Requests : SyncRepositories(q)
    BY DEF Next, GithubStep, AcceptLate, Receive, RequestStep, InsertPending, Resolve,
           UpsertMinimal, SavePendingDispatchPayload, SendAccepted, SendUnanswered,
           MarkDispatched, MarkIgnored, MarkFailed, Mark, SyncInstallation, RequestDies, Age,
           SweepStep, SweepFinds, SweepSends, SweepMarks, SweepEnds, SweepThrows, connectionVars
  <2> QED BY <2>1, <2>2, <2>3, <2>4
<1>3. \A d \in Deliveries : rows[d].status # "ABSENT" => rows'[d].status # "ABSENT"
  <2>1. CASE \E d, row : rows' = [rows EXCEPT ![d] = row] /\ row.status # "ABSENT"
    BY <2>1 DEF IInv, TypeOK
  <2>2. CASE \E d, s : rows' = [rows EXCEPT ![d].status = s] /\ s # "ABSENT"
    BY <2>2 DEF IInv, TypeOK, WebhookEvents
  <2>3. CASE \E d, es : rows' = [rows EXCEPT ![d].payload = es]
    BY <2>3 DEF IInv, TypeOK, WebhookEvents
  <2>4. ASSUME NEW q \in Requests, InsertPending(q)
        PROVE  UNCHANGED rows \/ \E d, row : rows' = [rows EXCEPT ![d] = row] /\ row.status # "ABSENT"
    <3> DEFINE row == [status |-> "PENDING", payload |-> {}, at |-> created + 1]
    <3>1. UNCHANGED rows \/ rows' = [rows EXCEPT ![request[q].d] = row]
      BY <2>4 DEF InsertPending, rowVars
    <3>2. row.status = "PENDING"
      OBVIOUS
    <3> HIDE DEF row
    <3> QED BY <3>1, <3>2
  <2>5. ASSUME NEW q \in Requests, MarkDispatched(q) \/ MarkIgnored(q) \/ MarkFailed(q)
        PROVE  \E d, s : rows' = [rows EXCEPT ![d].status = s] /\ s # "ABSENT"
    <3>1. PICK s \in {"DISPATCHED", "IGNORED", "FAILED"} : rows' = [rows EXCEPT ![request[q].d].status = s]
      BY <2>5 DEF MarkDispatched, MarkIgnored, MarkFailed, Mark
    <3>2. s # "ABSENT"
      OBVIOUS
    <3> QED BY <3>1, <3>2
  <2>6. ASSUME NEW d \in Deliveries, SweepMarks(d)
        PROVE  \E c, s : rows' = [rows EXCEPT ![c].status = s] /\ s # "ABSENT"
    BY <2>6 DEF SweepMarks
  <2>7. ASSUME NEW q \in Requests, SavePendingDispatchPayload(q)
        PROVE  \E d, es : rows' = [rows EXCEPT ![d].payload = es]
    BY <2>7 DEF SavePendingDispatchPayload
  <2>8. CASE UNCHANGED rows
    BY <2>8
  <2> QED BY <2>1, <2>2, <2>3, <2>4, <2>5, <2>6, <2>7, <2>8, RowWriters
<1> QED BY <1>1, <1>2, <1>3

(* What a delivery asks for, it keeps asking for.                          *)
LEMMA RoutesStay ==
  ASSUME IInv, Next, NEW d \in 1..emitted, NEW e \in Reviews,
         Routes(d, e), connection[e.repo] # "ABSENT"
  PROVE  Routes(d, e)' /\ connection'[e.repo] # "ABSENT"
<1>1. event'[d] = event[d] /\ e.repo \in Rows
  BY HistoryStays DEF Reviews
<1> QED BY <1>1, HistoryStays DEF Routes

(* What a row asks for was in its payload before, or is saved now by the   *)
(* request that owns the row.                                              *)
LEMMA PayloadMoves ==
  ASSUME IInv, Next, NEW d \in Deliveries
  PROVE  \/ rows'[d].payload \subseteq rows[d].payload
         \/ \E q \in Requests : /\ ~At(q, "idle") /\ d = request[q].d
                                /\ rows'[d].payload = request[q].events
<1>1. CASE UNCHANGED rows
  BY <1>1
<1>2. ASSUME NEW q \in Requests, InsertPending(q)
      PROVE  rows'[d].payload \subseteq rows[d].payload
  <2>1. \/ UNCHANGED rows
        \/ rows' = [rows EXCEPT ![request[q].d] =
                     [status |-> "PENDING", payload |-> {}, at |-> created + 1]]
    BY <1>2 DEF InsertPending, rowVars
  <2> QED BY <2>1 DEF IInv, TypeOK
<1>3. ASSUME NEW q \in Requests, SavePendingDispatchPayload(q)
      PROVE  \/ rows'[d].payload \subseteq rows[d].payload
             \/ /\ ~At(q, "idle") /\ d = request[q].d
                /\ rows'[d].payload = request[q].events
  <2>1. At(q, "save") /\ rows' = [rows EXCEPT ![request[q].d].payload = request[q].events]
    BY <1>3 DEF SavePendingDispatchPayload
  <2> QED BY <2>1 DEF At, IInv, TypeOK, WebhookEvents
<1>4. CASE \E c, s : rows' = [rows EXCEPT ![c].status = s]
  BY <1>4 DEF IInv, TypeOK, WebhookEvents
<1>5. ASSUME NEW q \in Requests, MarkDispatched(q) \/ MarkIgnored(q) \/ MarkFailed(q)
      PROVE  \E c, s : rows' = [rows EXCEPT ![c].status = s]
  BY <1>5 DEF MarkDispatched, MarkIgnored, MarkFailed, Mark
<1>6. ASSUME NEW c \in Deliveries, SweepMarks(c)
      PROVE  \E b, s : rows' = [rows EXCEPT ![b].status = s]
  BY <1>6 DEF SweepMarks
<1> QED BY <1>1, <1>2, <1>3, <1>4, <1>5, <1>6, RowWriters

(* A request that is not idle goes on with what it holds, with less of it, *)
(* with nothing, or has just resolved its tenants.                         *)
LEMMA RequestMoves ==
  ASSUME IInv, Next, NEW q \in Requests
  PROVE  \/ request'[q].pc = "idle"
         \/ request'[q].events = {} /\ request'[q].todo = {}
         \/ /\ ~At(q, "idle") /\ request'[q].d = request[q].d
            /\ request'[q].events \subseteq request[q].events
            /\ request'[q].todo \subseteq request[q].todo
         \/ Resolve(q)
<1>1. request \in [Requests -> RequestStates]
  BY DEF IInv, TypeOK
<1>2. CASE request'[q] = request[q]
  BY <1>2 DEF At
<1>3. ASSUME NEW p \in Requests, Ends(p) PROVE request'[q].pc = "idle" \/ request'[q] = request[q]
  BY <1>1, <1>3 DEF Ends, Idle
<1>4. ASSUME NEW p \in Requests, NEW pc, NEW todo, NEW es, Becomes(p, pc, todo, es)
      PROVE  \/ request'[q] = request[q]
             \/ /\ p = q /\ request'[q].d = request[q].d
                /\ request'[q].events = es /\ request'[q].todo = todo
  BY <1>1, <1>4 DEF Becomes
<1>5. ASSUME NEW p \in Requests, NEW d \in Deliveries, Receive(p, d)
      PROVE  \/ request'[q] = request[q]
             \/ request'[q].events = {} /\ request'[q].todo = {}
  <2> DEFINE x == [pc |-> "insert", d |-> d, todo |-> {}, events |-> {}]
  <2>1. request' = [request EXCEPT ![p] = x]
    BY <1>5 DEF Receive
  <2>2. x.events = {} /\ x.todo = {}
    OBVIOUS
  <2> HIDE DEF x
  <2> QED BY <1>1, <2>1, <2>2
<1>6. ASSUME NEW p \in Requests, RequestStep(p)
      PROVE  \/ Ends(p) \/ Resolve(p)
             \/ ~At(p, "idle") /\ \E pc : Goto(p, pc)
             \/ /\ ~At(p, "idle")
                /\ \E pc : \E todo \in SUBSET request[p].todo : Becomes(p, pc, todo, request[p].events)
  <2>1. CASE Resolve(p)
    BY <2>1
  <2>2. CASE InsertPending(p) \/ SavePendingDispatchPayload(p) \/ SendAccepted(p)
             \/ SyncInstallation(p) \/ SyncRepositories(p)
    <3>1. ~At(p, "idle")
      BY <2>2 DEF InsertPending, SavePendingDispatchPayload, SendAccepted, SyncInstallation,
                  SyncRepositories, At
    <3>2. Ends(p) \/ \E pc : Goto(p, pc)
      BY <2>2 DEF InsertPending, SavePendingDispatchPayload, SendAccepted, SyncInstallation,
                  SyncRepositories
    <3> QED BY <3>1, <3>2
  <2>3. CASE UpsertMinimal(p)
    <3>1. ~At(p, "idle")
      BY <2>3 DEF UpsertMinimal, At
    <3>2. PICK t \in request[p].todo :
            \/ Becomes(p, "upsert", request[p].todo \ {t}, request[p].events)
            \/ \E pc : Becomes(p, pc, {}, request[p].events)
      BY <2>3 DEF UpsertMinimal
    <3> QED BY <3>1, <3>2
  <2>4. CASE SendUnanswered(p) \/ MarkDispatched(p) \/ MarkIgnored(p) \/ MarkFailed(p)
    BY <2>4 DEF SendUnanswered, MarkDispatched, MarkIgnored, MarkFailed, Mark
  <2> QED BY <1>6, <2>1, <2>2, <2>3, <2>4 DEF RequestStep
<1>7. ASSUME NEW p \in Requests, Resolve(p) PROVE p = q \/ request'[q] = request[q]
  BY <1>1, <1>7 DEF Resolve, Becomes
<1>8. \/ UNCHANGED request
      \/ \E p \in Requests : Ends(p) \/ RequestStep(p) \/ \E d \in Deliveries : Receive(p, d)
  BY DEF Next, UserStep, GithubStep, AcceptLate, RequestDies, Age, SweepStep, SweepFinds,
         SweepSends, SweepMarks, SweepEnds, SweepThrows
<1>9. ASSUME NEW p \in Requests, ~At(p, "idle"), NEW pc, NEW todo \in SUBSET request[p].todo,
             Becomes(p, pc, todo, request[p].events)
      PROVE  \/ request'[q] = request[q]
             \/ /\ ~At(q, "idle") /\ request'[q].d = request[q].d
                /\ request'[q].events \subseteq request[q].events
                /\ request'[q].todo \subseteq request[q].todo
  BY <1>4, <1>9
<1>10. ASSUME NEW p \in Requests, ~At(p, "idle"), NEW pc, Goto(p, pc)
       PROVE  \/ request'[q] = request[q]
              \/ /\ ~At(q, "idle") /\ request'[q].d = request[q].d
                 /\ request'[q].events \subseteq request[q].events
                 /\ request'[q].todo \subseteq request[q].todo
  BY <1>9, <1>10 DEF Goto
<1> QED BY <1>2, <1>3, <1>5, <1>6, <1>7, <1>8, <1>9, <1>10

(* findConnectedByGithubRepoId and routePullRequestEvent route a delivery  *)
(* to rows of its own repository, at its own head.                         *)
LEMMA ResolveRoutes ==
  ASSUME IInv, NEW q \in Requests, Resolve(q)
  PROVE  /\ request'[q].d = request[q].d
         /\ RoutedFrom(request[q].d, request[q].events, request[q].todo)'
<1> DEFINE e == Delivery(q)
           tenants == FindConnected(e.on)
           reviews == RoutePullRequestEvent(e, tenants)
<1>1. /\ request'[q].d = request[q].d /\ request'[q].todo = tenants /\ request'[q].events = reviews
      /\ UNCHANGED <<connection, event>>
  BY DEF Resolve, Becomes, IInv, TypeOK, connectionVars, githubVars
<1>2. e \in PullRequestEvents
  BY DEF Resolve, IInv, RequestInv, At, PullRequestPcs
<1>3. \A t \in tenants : connection[t] # "ABSENT" /\ GithubRepoOf[t] = e.on
  BY DEF FindConnected, RowsOfGithubRepo
<1>4. \A f \in reviews : f.repo \in tenants /\ Routes(request[q].d, f)
  <2>1. e = event[request[q].d]
    BY DEF Delivery
  <2> SUFFICES ASSUME NEW f \in reviews PROVE f.repo \in tenants /\ Routes(request[q].d, f)
    OBVIOUS
  <2> HIDE DEF tenants, e
  <2>3. /\ f.repo \in tenants /\ f.sha = e.pull.sha /\ e.action \in REVIEW_TRIGGERING_ACTIONS
        /\ \/ e.action = "ready_for_review"
           \/ ~e.pull.draft
           \/ ProjectOf[f.repo] \in ReviewsDrafts
    BY DEF RoutePullRequestEvent
  <2> QED BY <1>2, <1>3, <2>1, <2>3 DEF Routes
<1>5. \A f \in reviews : Routes(request[q].d, f)'
  BY <1>1, <1>4 DEF Routes
<1> HIDE DEF tenants, reviews
<1> QED BY <1>1, <1>3, <1>4, <1>5 DEF RoutedFrom, Delivery

LEMMA NextRoutingInv == IInv /\ RoutingInv /\ [Next]_vars => RoutingInv'
<1> SUFFICES ASSUME IInv, RoutingInv, [Next]_vars PROVE RoutingInv'
  OBVIOUS
<1>1. CASE UNCHANGED vars
  BY <1>1 DEF vars, connectionVars, githubVars, rowVars, RoutingInv, RoutedFrom, Routes, At,
              PullRequestsWereReported, Reported
<1>2. CASE Next
  <2>1. /\ request \in [Requests -> RequestStates] /\ rows \in [Deliveries -> WebhookEvents]
        /\ pullRequest \in [Rows -> PullRequests \cup {None}] /\ 1..emitted \subseteq Deliveries
    BY Constants DEF IInv, TypeOK, GithubTypeOK, Deliveries
  <2>2. ASSUME NEW q \in Requests, ~At(q, "idle")'
        PROVE  RoutedFrom(request[q].d, request[q].events, request[q].todo)'
    <3>1. CASE request'[q].events = {} /\ request'[q].todo = {}
      BY <3>1 DEF RoutedFrom
    <3>2. CASE /\ ~At(q, "idle") /\ request'[q].d = request[q].d
               /\ request'[q].events \subseteq request[q].events
               /\ request'[q].todo \subseteq request[q].todo
      <4>1. PICK c \in 1..emitted : /\ c = request[q].d
                                    /\ RoutedFrom(c, request[q].events, request[q].todo)
        BY <3>2 DEF RoutingInv, IInv, RequestInv
      <4>2. request[q].events \subseteq Reviews /\ request[q].todo \subseteq Rows
        BY <2>1 DEF RequestStates
      <4>3. \A e \in request[q].events :
              Routes(c, e) /\ connection[e.repo] # "ABSENT" /\ e \in Reviews
        BY <4>1, <4>2 DEF RoutedFrom
      <4>4. \A e \in request[q].events : Routes(c, e)' /\ connection'[e.repo] # "ABSENT"
        BY <1>2, <4>3, RoutesStay
      <4>5. \A t \in request[q].todo :
              connection'[t] # "ABSENT" /\ event'[c].on = GithubRepoOf[t]
        BY <1>2, <4>1, <4>2, HistoryStays DEF RoutedFrom
      <4>6. request'[q].d = c
        BY <3>2, <4>1
      <4>7. \A e \in request[q].events : Routes(request[q].d, e)'
        BY <4>4, <4>6 DEF Routes
      <4> QED BY <3>2, <4>4, <4>5, <4>6, <4>7 DEF RoutedFrom
    <3>3. CASE Resolve(q)
      BY <3>3, ResolveRoutes
    <3> QED BY <1>2, <2>2, <3>1, <3>2, <3>3, RequestMoves DEF At
  <2>3. ASSUME NEW d \in Deliveries, NEW e \in rows'[d].payload
        PROVE  d \in 1..emitted' /\ connection'[e.repo] # "ABSENT" /\ Routes(d, e)'
    <3>1. e \in Reviews /\ d \in 1..emitted /\ connection[e.repo] # "ABSENT" /\ Routes(d, e)
      <4>1. CASE e \in rows[d].payload
        BY <2>1, <4>1 DEF RoutingInv, WebhookEvents
      <4>2. ASSUME NEW q \in Requests, ~At(q, "idle"), d = request[q].d, e \in request[q].events
            PROVE  e \in Reviews /\ d \in 1..emitted /\ connection[e.repo] # "ABSENT" /\ Routes(d, e)
        BY <2>1, <4>2 DEF RoutingInv, RoutedFrom, RequestStates, IInv, RequestInv
      <4> QED BY <1>2, <2>3, <4>1, <4>2, PayloadMoves
    <3> QED BY <1>2, <3>1, HistoryStays, RoutesStay
  <2>4. PullRequestsWereReported'
    <3> SUFFICES ASSUME NEW t \in Rows, pullRequest'[t] # None
                 PROVE  \E d \in Deliveries : Reported(d, t, pullRequest[t])'
      BY DEF PullRequestsWereReported
    <3>1. ASSUME NEW d \in Deliveries, Reported(d, t, pullRequest'[t])
          PROVE  Reported(d, t, pullRequest[t])'
      BY <1>2, <3>1, HistoryStays DEF Reported
    <3>2. CASE pullRequest'[t] = pullRequest[t]
      BY <3>1, <3>2 DEF RoutingInv, PullRequestsWereReported
    <3>3. ASSUME NEW q \in Requests, UpsertMinimal(q), pullRequest'[t] # pullRequest[t]
          PROVE  \E d \in Deliveries : Reported(d, t, pullRequest'[t])
      <4>1. PICK u \in request[q].todo : pullRequest' = [pullRequest EXCEPT ![u] = Delivery(q).pull]
        BY <3>3 DEF UpsertMinimal
      <4>2. t = u /\ pullRequest'[t] = Delivery(q).pull
        BY <2>1, <3>3, <4>1
      <4>3. request[q].pc = "upsert"
        BY <3>3 DEF UpsertMinimal, At
      <4>4. /\ request[q].d \in 1..emitted /\ Delivery(q) \in PullRequestEvents
            /\ event[request[q].d].on = GithubRepoOf[t]
        BY <4>2, <4>3 DEF RoutingInv, RoutedFrom, IInv, RequestInv, At, PullRequestPcs, ReviewPcs
      <4>5. request[q].d \in Deliveries /\ rows[request[q].d].status # "ABSENT"
        BY <4>3, OwnRow
      <4>6. Reported(request[q].d, t, pullRequest'[t])
        BY <4>2, <4>4, <4>5 DEF Reported, Delivery
      <4> QED BY <4>5, <4>6
    <3>4. UNCHANGED pullRequest \/ \E q \in Requests : UpsertMinimal(q)
      BY <1>2 DEF Next, UserStep, GithubStep, AcceptLate, Receive, RequestStep, InsertPending,
             Resolve, SavePendingDispatchPayload, SendAccepted, SendUnanswered, MarkDispatched,
             MarkIgnored, MarkFailed, Mark, SyncInstallation, SyncRepositories, RequestDies, Age,
             SweepStep, SweepFinds, SweepSends, SweepMarks, SweepEnds, SweepThrows
    <3> QED BY <3>1, <3>2, <3>3, <3>4
  <2> QED BY <2>2, <2>3, <2>4 DEF RoutingInv
<1> QED BY <1>1, <1>2

LEMMA RoutingInvHolds == Spec => []RoutingInv
<1>1. Init => RoutingInv
  BY DEF Init, RoutingInv, At, Idle, NoRow, PullRequestsWereReported
<1>2. IInv /\ RoutingInv /\ [Next]_vars => RoutingInv'
  BY NextRoutingInv
<1> QED
  BY <1>1, <1>2, IInvHolds, PTL DEF Spec

(* From delivery to review run, through redeliveries, sweeps and late      *)
(* sends: what Inngest starts, some recorded delivery of the very          *)
(* repository asked for, at that head.                                     *)
THEOREM ReviewsAreAlwaysRouted == Spec => []OnlyRoutedReviewsStart
<1>1. IInv /\ RoutingInv => OnlyRoutedReviewsStart
  <2> SUFFICES ASSUME IInv, RoutingInv, NEW e \in Reviews, started[e] > 0
               PROVE  /\ connection[e.repo] # "ABSENT"
                      /\ \E d \in 1..emitted : e \in rows[d].payload /\ Routes(d, e)
    BY DEF OnlyRoutedReviewsStart
  <2>1. PrKey(e) \in seen
    BY DEF IInv, InngestInv
  <2>2. PICK d \in Deliveries : e \in rows[d].payload
    BY <2>1 DEF IInv, InngestInv, Asked
  <2> QED
    BY <2>2 DEF RoutingInv
<1> QED
  BY <1>1, IInvHolds, RoutingInvHolds, PTL

(* upsertMinimal copies: a PullRequest row is at every moment what one     *)
(* recorded delivery of its repository said, if not always the latest.     *)
THEOREM PullRequestsAreReported == Spec => []PullRequestsWereReported
<1>1. RoutingInv => PullRequestsWereReported
  BY DEF RoutingInv
<1> QED
  BY <1>1, RoutingInvHolds, PTL
-----------------------------------------------------------------------------
(* The safety half of EveryRowSettles: what is begun comes to an end, and  *)
(* each sweep that ends brings every row still waiting closer to its turn. *)

(* pc comes after from in the handler of a delivery.                       *)
Later(from, pc) ==
  \/ from = "insert" /\ pc # "insert"
  \/ from = "resolve" /\ pc \in {"upsert", "save", "send", "mark-dispatched", "mark-ignored"}
  \/ from = "upsert" /\ pc \in {"save", "send", "mark-dispatched", "mark-ignored"}
  \/ from = "save" /\ pc \in {"send", "mark-dispatched"}
  \/ from = "send" /\ pc = "mark-dispatched"
  \/ from = "sync-installation" /\ pc \in {"sync-repositories", "mark-ignored"}
  \/ from = "sync-repositories" /\ pc = "mark-ignored"

(* A request only goes on: it ends, reaches a later step, or has one       *)
(* tenant less to write.  No other request, sweep or delivery sets it back.*)
RequestsWindDown ==
  [][\A q \in Requests : ~At(q, "idle") /\ request'[q] # request[q] =>
       \/ request'[q] = Idle
       \/ /\ request'[q].d = request[q].d
          /\ \/ Later(request[q].pc, request'[q].pc)
             \/ /\ request'[q].pc = request[q].pc
                /\ request'[q].todo \subseteq request[q].todo
                /\ request'[q].todo # request[q].todo]_vars

(* So does a sweep: from send to mark, to the one retry of a step, or to   *)
(* one more row marked.                                                    *)
SweepsWindDown ==
  [][sweep.pc # "idle" /\ sweep' # sweep =>
       \/ sweep' = Asleep
       \/ /\ sweep'.sends = sweep.sends /\ sweep'.skips = sweep.skips
          /\ \/ sweep.pc = "send" /\ sweep'.pc = "mark"
             \/ sweep'.pc = sweep.pc /\ sweep.tries = 0 /\ sweep'.tries = 1
             \/ /\ sweep'.pc = sweep.pc /\ sweep'.tries = sweep.tries
                /\ sweep.marked \subseteq sweep'.marked /\ sweep'.marked # sweep.marked]_vars

Waits(d) == rows[d].status = "PENDING"

(* The rows the sweeper takes before d.                                    *)
Ahead(d) == {c \in Deliveries : Waits(c) /\ rows[c].at < rows[d].at}

Swept == sweep.sends \cup sweep.skips

(* The queue of PENDING rows advances.  Nobody gets in before a row that   *)
(* waits; a sweep that starts takes each row older than the threshold, or  *)
(* one that is ahead of it; and when a sweep ends, none of the rows it     *)
(* took waits any more, those it could not send included.                  *)
QueueAdvances ==
  [][/\ \A d \in Deliveries : Waits(d) => Ahead(d)' \subseteq Ahead(d)
     /\ SweepFinds => \A d \in PendingOlderThanThreshold : Swept' \cap (Ahead(d) \cup {d}) # {}
     /\ SweepEnds => \A d \in Swept : ~Waits(d)]_vars

(* The sweeper runs whenever a row is old enough: a batch is never empty   *)
(* because of rows it would have to leave out.                             *)
BacklogIsSeen == PendingOlderThanThreshold # {} => Batch # {}

(* Rows are numbered in the order of their insertion, and the rows a sweep *)
(* has marked do not wait.                                                 *)
QueueInv ==
  /\ \A d \in Deliveries : rows[d].at <= created
  /\ \A d \in sweep.marked : rows[d].status \notin {"ABSENT", "PENDING"}

(* Some row of a set of rows is the oldest.                                *)
LEMMA Oldest ==
  ASSUME IInv, NEW A \in SUBSET Deliveries, A # {}
  PROVE  \E c \in A : \A b \in A : ~(rows[b].at < rows[c].at)
<1> DEFINE T == {rows[c].at : c \in A}
<1>1. T \in SUBSET Nat /\ T # {}
  BY DEF IInv, TypeOK, WebhookEvents
<1>2. PICK t \in T : \A y \in T : ~(<<y, t>> \in OpToRel(<, Nat))
  BY <1>1, WFMin, NatLessThanWellFounded
<1>3. PICK c \in A : rows[c].at = t
  BY <1>2
<1>4. \A b \in A : ~(rows[b].at < rows[c].at)
  BY <1>1, <1>2, <1>3 DEF OpToRel
<1> QED BY <1>4

(* findPendingOlderThan skips no row but for older ones it takes.          *)
LEMMA BatchTakesTheOldest ==
  ASSUME IInv, NEW d \in PendingOlderThanThreshold
  PROVE  Batch \cap (Ahead(d) \cup {d}) # {}
<1> DEFINE P == PendingOlderThanThreshold
           Before(c) == {b \in P : rows[b].at < rows[c].at}
<1>1. SWEEP_BATCH_LIMIT \in Nat /\ 0 < SWEEP_BATCH_LIMIT
  BY IngestionAssumption
<1>2. P \subseteq Deliveries /\ \A c \in P : Waits(c)
  BY DEF PendingOlderThanThreshold, Waits
<1>3. \A c \in P : Before(c) = {} => c \in Batch
  <2> SUFFICES ASSUME NEW c \in P, Before(c) = {} PROVE c \in Batch
    OBVIOUS
  <2>1. Cardinality({b \in P : rows[b].at < rows[c].at}) = 0
    BY FS_EmptySet
  <2> QED BY <1>1, <2>1 DEF Batch
<1>4. CASE Before(d) = {}
  BY <1>3, <1>4
<1>5. CASE Before(d) # {}
  <2>1. Before(d) \in SUBSET Deliveries
    BY <1>2
  <2>2. PICK c \in Before(d) : \A b \in Before(d) : ~(rows[b].at < rows[c].at)
    <3> HIDE DEF Before
    <3> QED BY <1>5, <2>1, Oldest
  <2>3. \A b \in P : rows[b].at \in Nat
    BY <1>2 DEF IInv, TypeOK, WebhookEvents
  <2>4. c \in P /\ rows[c].at < rows[d].at
    BY <2>2
  <2>5. Before(c) = {}
    <3> SUFFICES ASSUME NEW b \in P, rows[b].at < rows[c].at PROVE FALSE
      OBVIOUS
    <3>1. rows[b].at < rows[d].at
      BY <2>3, <2>4
    <3> QED BY <2>2, <3>1
  <2>6. c \in Batch /\ c \in Ahead(d)
    BY <1>2, <1>3, <2>4, <2>5 DEF Ahead
  <2> QED BY <2>6
<1> QED BY <1>4, <1>5

(* A row is numbered when it is inserted, and never waits again.           *)
LEMMA RowMoves ==
  ASSUME IInv, Next, NEW d \in Deliveries
  PROVE  \/ /\ rows'[d].at = rows[d].at
            /\ Waits(d)' => Waits(d)
         \/ /\ rows[d].status = "ABSENT" /\ rows'[d].at = created + 1
            /\ created' = created + 1
<1>1. CASE UNCHANGED rows
  BY <1>1 DEF Waits
<1>2. ASSUME NEW q \in Requests, InsertPending(q), rows'[d] # rows[d]
      PROVE  /\ rows[d].status = "ABSENT" /\ rows'[d].at = created + 1
             /\ created' = created + 1
  <2> DEFINE row == [status |-> "PENDING", payload |-> {}, at |-> created + 1]
  <2>1. /\ rows[request[q].d].status = "ABSENT" /\ created' = created + 1
        /\ rows' = [rows EXCEPT ![request[q].d] = row]
    BY <1>2 DEF InsertPending, rowVars
  <2>2. row.at = created + 1
    OBVIOUS
  <2> HIDE DEF row
  <2> QED BY <1>2, <2>1, <2>2 DEF IInv, TypeOK
<1>3. CASE \E c, s : rows' = [rows EXCEPT ![c].status = s] /\ s # "PENDING"
  BY <1>3 DEF IInv, TypeOK, WebhookEvents, Waits
<1>4. CASE \E c, es : rows' = [rows EXCEPT ![c].payload = es]
  BY <1>4 DEF IInv, TypeOK, WebhookEvents, Waits
<1>5. ASSUME NEW q \in Requests, MarkDispatched(q) \/ MarkIgnored(q) \/ MarkFailed(q)
      PROVE  \E c, s : rows' = [rows EXCEPT ![c].status = s] /\ s # "PENDING"
  <2>1. PICK s \in {"DISPATCHED", "IGNORED", "FAILED"} : rows' = [rows EXCEPT ![request[q].d].status = s]
    BY <1>5 DEF MarkDispatched, MarkIgnored, MarkFailed, Mark
  <2>2. s # "PENDING"
    OBVIOUS
  <2> QED BY <2>1, <2>2
<1>6. ASSUME NEW c \in Deliveries, SweepMarks(c)
      PROVE  \E b, s : rows' = [rows EXCEPT ![b].status = s] /\ s # "PENDING"
  <2>1. PICK s \in {"DISPATCHED", "FAILED"} : rows' = [rows EXCEPT ![c].status = s]
    BY <1>6 DEF SweepMarks
  <2>2. s # "PENDING"
    OBVIOUS
  <2> QED BY <2>1, <2>2
<1>7. ASSUME NEW q \in Requests, SavePendingDispatchPayload(q)
      PROVE  \E c, es : rows' = [rows EXCEPT ![c].payload = es]
  BY <1>7 DEF SavePendingDispatchPayload
<1>8. CASE rows'[d] = rows[d]
  BY <1>8 DEF Waits
<1> QED BY <1>1, <1>2, <1>3, <1>4, <1>5, <1>6, <1>7, <1>8, RowWriters

LEMMA CreatedGrows ==
  ASSUME IInv, Next
  PROVE  created \in Nat /\ created' \in Nat /\ created <= created'
<1>1. created \in Nat
  BY DEF IInv, TypeOK
<1>2. UNCHANGED created \/ created' = created + 1
  BY DEF Next, UserStep, GithubStep, AcceptLate, Receive, RequestStep, InsertPending, Resolve,
         UpsertMinimal, SavePendingDispatchPayload, SendAccepted, SendUnanswered,
         MarkDispatched, MarkIgnored, MarkFailed, Mark, SyncInstallation, SyncRepositories,
         RequestDies, Age, SweepStep, SweepFinds, SweepSends, SweepMarks, SweepEnds,
         SweepThrows, rowVars
<1> QED BY <1>1, <1>2

LEMMA SweepMoves ==
  ASSUME IInv, Next
  PROVE  \/ UNCHANGED sweep
         \/ SweepFinds /\ sweep'.marked = {} /\ Swept' = Batch
         \/ SweepEnds /\ sweep' = Asleep /\ sweep.marked = Swept
         \/ SweepThrows /\ sweep'.marked = {}
         \/ SweepSends /\ sweep'.marked = {}
         \/ \E d \in Deliveries : SweepMarks(d) /\ sweep'.marked = sweep.marked \cup {d}
<1>1. SweepFinds => sweep'.marked = {} /\ Swept' = Batch
  <2> SUFFICES ASSUME SweepFinds PROVE sweep'.marked = {} /\ Swept' = Batch
    OBVIOUS
  <2>1. /\ sweep'.marked = {} /\ sweep'.sends = Sendable(Batch) /\ sweep'.skips = Skips(Batch)
    BY DEF SweepFinds
  <2> QED BY <2>1 DEF Swept, Skips, Sendable
<1>2. SweepEnds => sweep' = Asleep /\ sweep.marked = Swept
  BY DEF SweepEnds, Swept
<1>3. SweepThrows => sweep'.marked = {}
  BY DEF SweepThrows, Sweep, Asleep
<1>4. SweepSends => sweep'.marked = {}
  BY DEF SweepSends, Sweep
<1>5. \A d \in Deliveries : SweepMarks(d) => sweep'.marked = sweep.marked \cup {d}
  BY DEF SweepMarks, Sweep
<1>6. \/ UNCHANGED sweep
      \/ SweepFinds \/ SweepEnds \/ SweepThrows \/ SweepSends
      \/ \E d \in Deliveries : SweepMarks(d)
  BY DEF Next, UserStep, GithubStep, AcceptLate, Receive, RequestStep, InsertPending, Resolve,
         UpsertMinimal, SavePendingDispatchPayload, SendAccepted, SendUnanswered,
         MarkDispatched, MarkIgnored, MarkFailed, Mark, SyncInstallation, SyncRepositories,
         RequestDies, Age, SweepStep
<1> QED BY <1>1, <1>2, <1>3, <1>4, <1>5, <1>6

LEMMA NextQueueInv == IInv /\ QueueInv /\ [Next]_vars => QueueInv'
<1> SUFFICES ASSUME IInv, QueueInv, [Next]_vars PROVE QueueInv'
  OBVIOUS
<1>1. CASE UNCHANGED vars
  BY <1>1 DEF vars, rowVars, QueueInv, Waits
<1>2. CASE Next
  <2>1. \A d \in Deliveries : rows'[d].at <= created'
    <3> SUFFICES ASSUME NEW d \in Deliveries PROVE rows'[d].at <= created'
      OBVIOUS
    <3>1. rows[d].at \in Nat /\ rows[d].at <= created
      BY DEF IInv, TypeOK, WebhookEvents, QueueInv
    <3> QED BY <1>2, <3>1, RowMoves, CreatedGrows
  <2>2. ASSUME NEW d \in Deliveries, rows[d].status \notin {"ABSENT", "PENDING"}
        PROVE  rows'[d].status \notin {"ABSENT", "PENDING"}
    BY <1>2, <2>2, RowMoves, HistoryStays DEF Waits
  <2>3. ASSUME NEW d \in Deliveries, SweepMarks(d)
        PROVE  rows'[d].status \notin {"ABSENT", "PENDING"}
    <3>1. PICK s \in {"DISPATCHED", "FAILED"} : rows' = [rows EXCEPT ![d].status = s]
      BY <2>3 DEF SweepMarks
    <3> QED BY <3>1 DEF IInv, TypeOK, WebhookEvents
  <2>4. Asleep.marked = {} /\ sweep.marked \subseteq Deliveries
    BY DEF Asleep, IInv, TypeOK, SweepStates
  <2>5. \A d \in sweep'.marked : rows'[d].status \notin {"ABSENT", "PENDING"}
    BY <1>2, <2>2, <2>3, <2>4, SweepMoves DEF QueueInv
  <2> QED BY <2>1, <2>5 DEF QueueInv
<1> QED BY <1>1, <1>2

LEMMA QueueInvHolds == Spec => []QueueInv
<1>1. Init => QueueInv
  BY DEF Init, QueueInv, NoRow, Asleep
<1>2. IInv /\ QueueInv /\ [Next]_vars => QueueInv'
  BY NextQueueInv
<1> QED
  BY <1>1, <1>2, IInvHolds, PTL DEF Spec

(* However requests, sweeps and failures interleave: the sweeper's batches *)
(* come from the front of a queue that nobody jumps.                       *)
THEOREM QueueAlwaysAdvances == Spec => QueueAdvances
<1> DEFINE Step ==
     /\ \A d \in Deliveries : Waits(d) => Ahead(d)' \subseteq Ahead(d)
     /\ SweepFinds => \A d \in PendingOlderThanThreshold : Swept' \cap (Ahead(d) \cup {d}) # {}
     /\ SweepEnds => \A d \in Swept : ~Waits(d)
<1>1. IInv /\ QueueInv /\ [Next]_vars => [Step]_vars
  <2> SUFFICES ASSUME IInv, QueueInv, Next PROVE Step
    OBVIOUS
  <2>1. ASSUME NEW d \in Deliveries, Waits(d), NEW c \in Deliveries,
               Waits(c)', rows'[c].at < rows'[d].at
        PROVE  Waits(c) /\ rows[c].at < rows[d].at
    <3>1. /\ rows[d].at \in Nat /\ rows[c].at \in Nat
          /\ rows[d].at <= created /\ created \in Nat
      BY DEF IInv, TypeOK, WebhookEvents, QueueInv
    <3>2. rows'[d].at = rows[d].at
      BY <2>1, RowMoves DEF Waits
    <3> QED BY <2>1, <3>1, <3>2, RowMoves
  <2>2. \A d \in Deliveries : Waits(d) => Ahead(d)' \subseteq Ahead(d)
    BY <2>1 DEF Ahead
  <2>3. SweepFinds => \A d \in PendingOlderThanThreshold : Swept' \cap (Ahead(d) \cup {d}) # {}
    <3>1. SweepFinds => Swept' = Batch
      <4> SUFFICES ASSUME SweepFinds PROVE Swept' = Batch
        OBVIOUS
      <4>1. sweep'.sends = Sendable(Batch) /\ sweep'.skips = Skips(Batch)
        BY DEF SweepFinds
      <4> QED BY <4>1 DEF Swept, Skips, Sendable
    <3> QED BY <3>1, BatchTakesTheOldest
  <2>4. SweepEnds => \A d \in Swept : ~Waits(d)
    BY DEF SweepEnds, Swept, QueueInv, Waits
  <2> QED BY <2>2, <2>3, <2>4
<1> QED
  BY <1>1, IInvHolds, QueueInvHolds, PTL DEF Spec, QueueAdvances

(* The batch of a sweep is empty only when no row is old enough.           *)
THEOREM BacklogsAreSeen == Spec => []BacklogIsSeen
<1>1. IInv => BacklogIsSeen
  BY BatchTakesTheOldest DEF BacklogIsSeen
<1> QED
  BY <1>1, IInvHolds, PTL

(* Each handler goes through its steps once, in order.                     *)
THEOREM RequestsAlwaysWindDown == Spec => RequestsWindDown
<1> DEFINE Goes(q) ==
             \/ request'[q] = Idle
             \/ /\ request'[q].d = request[q].d
                /\ \/ Later(request[q].pc, request'[q].pc)
                   \/ /\ request'[q].pc = request[q].pc
                      /\ request'[q].todo \subseteq request[q].todo
                      /\ request'[q].todo # request[q].todo
           Step == \A q \in Requests : ~At(q, "idle") /\ request'[q] # request[q] => Goes(q)
<1>1. IInv /\ [Next]_vars => [Step]_vars
  <2> SUFFICES ASSUME IInv, Next, NEW q \in Requests, ~At(q, "idle"), request'[q] # request[q]
               PROVE  Goes(q)
    OBVIOUS
  <2>1. request \in [Requests -> RequestStates]
    BY DEF IInv, TypeOK
  <2>2. CASE Ends(q)
    BY <2>1, <2>2 DEF Ends
  <2>3. ASSUME NEW pc, NEW todo, NEW es, Becomes(q, pc, todo, es),
               \/ Later(request[q].pc, pc)
               \/ pc = request[q].pc /\ todo \subseteq request[q].todo /\ todo # request[q].todo
        PROVE  Goes(q)
    BY <2>1, <2>3 DEF Becomes
  <2>4. \A pc : Goto(q, pc) /\ Later(request[q].pc, pc) => Goes(q)
    <3> HIDE DEF Goes
    <3> QED BY <2>3 DEF Goto
  <2>5. RequestStep(q) \/ Ends(q)
    <3>1. ASSUME NEW p \in Requests, p # q PROVE ~Ends(p) /\ ~(\E pc, todo, es : Becomes(p, pc, todo, es))
      BY <2>1, <3>1 DEF Ends, Becomes
    <3>2. ASSUME NEW p \in Requests, NEW d \in Deliveries PROVE ~Receive(p, d)
      BY <2>1 DEF Receive, At
    <3>3. \A p \in Requests : RequestStep(p) => Ends(p) \/ \E pc, todo, es : Becomes(p, pc, todo, es)
      BY DEF RequestStep, InsertPending, Resolve, UpsertMinimal, SavePendingDispatchPayload,
             SendAccepted, SendUnanswered, MarkDispatched, MarkIgnored, MarkFailed, Mark,
             SyncInstallation, SyncRepositories, Goto
    <3>4. \/ UNCHANGED request
          \/ \E p \in Requests : Ends(p) \/ RequestStep(p) \/ \E d \in Deliveries : Receive(p, d)
      BY DEF Next, UserStep, GithubStep, AcceptLate, RequestDies, Age, SweepStep, SweepFinds,
             SweepSends, SweepMarks, SweepEnds, SweepThrows
    <3> QED BY <3>1, <3>2, <3>3, <3>4
  <2> HIDE DEF Goes
  <2>6. CASE InsertPending(q)
    <3>1. FirstStep(Delivery(q)) # "insert"
      BY DEF FirstStep
    <3>2. At(q, "insert") /\ (Ends(q) \/ Goto(q, FirstStep(Delivery(q))))
      BY <2>6 DEF InsertPending
    <3> QED BY <2>2, <2>4, <3>1, <3>2 DEF At, Later
  <2>7. CASE Resolve(q)
    <3>1. /\ request[q].pc = "resolve"
          /\ \E todo, es : Becomes(q, "mark-ignored", todo, es) \/ Becomes(q, "upsert", todo, es)
      BY <2>7 DEF Resolve, At
    <3> QED BY <2>3, <3>1 DEF Later
  <2>8. CASE UpsertMinimal(q)
    <3>1. request[q].pc = "upsert"
      BY <2>8 DEF UpsertMinimal, At
    <3>2. PICK t \in request[q].todo :
            \/ Becomes(q, "upsert", request[q].todo \ {t}, request[q].events)
            \/ \E pc \in {"mark-ignored", "save"} : Becomes(q, pc, {}, request[q].events)
      BY <2>8 DEF UpsertMinimal
    <3>3. request[q].todo \ {t} # request[q].todo
      BY <3>2
    <3> QED BY <2>3, <3>1, <3>2, <3>3 DEF Later
  <2>9. CASE SavePendingDispatchPayload(q) \/ SendAccepted(q)
    <3>1. \/ request[q].pc = "save" /\ Goto(q, "send")
          \/ request[q].pc = "send" /\ Goto(q, "mark-dispatched")
      BY <2>9 DEF SavePendingDispatchPayload, SendAccepted, At
    <3> QED BY <2>4, <3>1 DEF Later
  <2>10. CASE SyncInstallation(q) \/ SyncRepositories(q)
    <3>1. \/ /\ request[q].pc = "sync-installation"
             /\ Goto(q, "mark-ignored") \/ Goto(q, "sync-repositories")
          \/ request[q].pc = "sync-repositories" /\ Goto(q, "mark-ignored")
      BY <2>10 DEF SyncInstallation, SyncRepositories, At
    <3> QED BY <2>4, <3>1 DEF Later
  <2>11. CASE SendUnanswered(q) \/ MarkDispatched(q) \/ MarkIgnored(q) \/ MarkFailed(q)
    BY <2>2, <2>11 DEF SendUnanswered, MarkDispatched, MarkIgnored, MarkFailed, Mark
  <2> QED BY <2>2, <2>5, <2>6, <2>7, <2>8, <2>9, <2>10, <2>11 DEF RequestStep
<1> QED
  BY <1>1, IInvHolds, PTL DEF Spec, RequestsWindDown

(* A sweep ends by itself, or is given up after one retry of a step.       *)
THEOREM SweepsAlwaysWindDown == Spec => SweepsWindDown
<1> DEFINE Step == sweep.pc # "idle" /\ sweep' # sweep =>
             \/ sweep' = Asleep
             \/ /\ sweep'.sends = sweep.sends /\ sweep'.skips = sweep.skips
                /\ \/ sweep.pc = "send" /\ sweep'.pc = "mark"
                   \/ sweep'.pc = sweep.pc /\ sweep.tries = 0 /\ sweep'.tries = 1
                   \/ /\ sweep'.pc = sweep.pc /\ sweep'.tries = sweep.tries
                      /\ sweep.marked \subseteq sweep'.marked /\ sweep'.marked # sweep.marked
<1>1. IInv /\ [Next]_vars => [Step]_vars
  <2> SUFFICES ASSUME IInv, Next, sweep.pc # "idle", sweep' # sweep PROVE Step
    OBVIOUS
  <2>1. sweep.tries \in 0..1
    BY DEF IInv, TypeOK, SweepStates
  <2>2. CASE SweepThrows
    <3>1. \/ sweep.tries < 1 /\ sweep' = Sweep(sweep.pc, {}, sweep.tries + 1)
          \/ sweep' = Asleep
      BY <2>2 DEF SweepThrows
    <3> QED BY <2>1, <3>1 DEF Sweep
  <2>3. CASE SweepSends
    BY <2>3 DEF SweepSends, Sweep
  <2>4. ASSUME NEW d \in Deliveries, SweepMarks(d) PROVE Step
    <3>1. /\ sweep.pc = "mark" /\ d \notin sweep.marked
          /\ sweep' = Sweep("mark", sweep.marked \cup {d}, sweep.tries)
      BY <2>4 DEF SweepMarks
    <3> QED BY <3>1 DEF Sweep
  <2>5. CASE SweepEnds
    BY <2>5 DEF SweepEnds
  <2> QED BY <2>2, <2>3, <2>4, <2>5, SweepMoves DEF SweepFinds
<1> QED
  BY <1>1, IInvHolds, PTL DEF Spec, SweepsWindDown
=============================================================================
