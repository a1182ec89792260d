---------------------------- MODULE TrailProofs -----------------------------
(***************************************************************************)
(* Proofs about photos, audit rows and trip requests, for any interleaving *)
(* of any number of workers and requests:                                  *)
(*   PhotosAreStored        Spec => []PhotoRowHasFile                      *)
(*   ProgressIsBacked       Spec => []ProofBehindProgress                  *)
(*   DriversActOnOwnTrips   Spec => []DriverActsOnOwnTrip                  *)
(* All three follow from TrailInv of FleetFlowInv.                         *)
(***************************************************************************)
EXTENDS FleetFlowProofs

\* Only a trip request writes photos, audit rows, files and request slots.
LEMMA TrailStep ==
  ASSUME [Next]_vars
  PROVE  UNCHANGED <<proofVars, tripVars>> \/ \E r \in Requests : Travelling(r)
<1>1. ASSUME NEW o \in Orders, Creation(o)
      PROVE  UNCHANGED <<proofVars, tripVars>>
  BY <1>1 DEF Creation, CheckFunds, PersistOrder, EnqueueDispatch, CreationFails, storeVars
<1>2. ASSUME NEW w \in Workers, Dispatching(w)
      PROVE  UNCHANGED <<proofVars, tripVars>>
  BY <1>2 DEF Dispatching, TakeJob, LoadOrder, MarkMatching, FindDriver, CancelUnmatched,
              ReadBalance, CancelUnfunded, Settle, NotifyOutcome, Broadcast, FinishJob,
              JobThrows, WorkerCrashes, storeVars
<1>3. QED
  BY <1>1, <1>2 DEF Next, JobStalls, vars, storeVars

\* A step of one request slot leaves the others alone.
LEMMA OtherSlots ==
  ASSUME TypeInv, NEW r \in Requests, NEW v \in Requests, v # r, Travelling(v)
  PROVE  request'[r] = request[r]
<1> USE DEF TypeInv, TripInv, TripTypeOK
<1>1. ASSUME NEW u \in Users, NEW o \in Orders, NEW op \in Operation,
             NEW type \in OrderPhotoType, NEW reason \in BOOLEAN,
             ReadOrder(v, u, o, op, type, reason)
      PROVE  request'[r] = request[r]
  BY <1>1 DEF ReadOrder, Accept
<1>2. CASE StoreFile(v) \/ InsertPhoto(v) \/ MarkPickedUp(v) \/ MarkDelivered(v)
  BY <1>2 DEF StoreFile, InsertPhoto, MarkPickedUp, MarkDelivered, Step
<1>3. CASE NotifyTrip(v) \/ RequestFails(v)
  BY <1>3 DEF NotifyTrip, RequestFails
<1>4. CASE DecideProof(v)
  <2>1. \E x : request' = [request EXCEPT ![v] = x]
    BY <1>4 DEF DecideProof
  <2>2. QED
    BY <2>1
<1>5. CASE ListPhotos(v)
  BY <1>5 DEF ListPhotos
<1>6. QED
  BY <1>1, <1>2, <1>3, <1>4, <1>5 DEF Travelling

\* What a request keeps while it is served.
SameRequest(q, x) ==
  /\ x.op = q.op /\ x.type = q.type /\ x.order = q.order
  /\ x.user = q.user /\ x.driver = q.driver /\ x.reason = q.reason

\* A new request x has found the order on the road, in the status of its leg.
Arrives(x) ==
  /\ x.pc \in {"store", "decide"}
  /\ x.order \in Orders /\ x.user \in Users /\ x.type \in OrderPhotoType
  /\ UserCanAdvanceTripOrder(x.user, x.order)
  /\ status[x.order] = RequiredStatus(x.type)
  /\ x.driver = assignedDriver[x.order]
  /\ UNCHANGED storeVars

\* How a request in flight goes on from q to x.
GoesFrom(q, x) ==
  \/ q.pc = "store" /\ x.pc = "insert" /\ x.type \in files'[x.order]
  \/ q.pc = "insert" /\ x.pc = "notify"
  \/ /\ q.pc = "decide" /\ x.pc = "list" /\ UNCHANGED storeVars
     /\ ProofDecision(q.user, q.driver, q.type \in photos[q.order], q.reason) # "rejected"
     /\ x.skipped =
          (ProofDecision(q.user, q.driver, q.type \in photos[q.order], q.reason) = "skipped")
  \/ /\ q.pc = "list" /\ x.pc = "write"
     /\ x.skipped = q.skipped
     /\ x.urls = (q.type \in photos[q.order])
  \/ q.pc = "write" /\ x.pc = "notify"

\* A slot that is busy after a step was left alone, has just accepted a
\* request, or went on with the one it had.
LEMMA SlotStep ==
  ASSUME TypeInv, [Next]_vars, NEW r \in Requests, request'[r].pc # "idle"
  PROVE  \/ request'[r] = request[r]
         \/ Arrives(request'[r])
         \/ SameRequest(request[r], request'[r]) /\ GoesFrom(request[r], request'[r])
<1> USE DEF TypeInv, TripInv, TripTypeOK, RequestLocals
<1> DEFINE q == request[r]
<1>1. q \in RequestState
  OBVIOUS
<1>2. ASSUME NEW v \in Requests, Travelling(v), v # r
      PROVE  request'[r] = request[r]
  BY <1>2, OtherSlots
<1>3. ASSUME NEW u \in Users, NEW o \in Orders, NEW op \in Operation,
             NEW type \in OrderPhotoType, NEW reason \in BOOLEAN,
             ReadOrder(r, u, o, op, type, reason)
      PROVE  Arrives(request'[r])
  <2>1. /\ request'[r].pc \in {"store", "decide"}
        /\ request'[r].order = o
        /\ request'[r].user = u
        /\ request'[r].type = type
        /\ request'[r].driver = assignedDriver[o]
    BY <1>3 DEF ReadOrder, Accept, IdleRequest
  <2>2. QED
    BY <1>3, <2>1 DEF ReadOrder, Arrives
<1>4. ASSUME NEW from, NEW to, Step(r, from, to)
      PROVE  /\ SameRequest(q, request'[r]) /\ q.pc = from /\ request'[r].pc = to
             /\ request'[r].skipped = q.skipped
  BY <1>1, <1>4 DEF Step, RequestState, SameRequest
<1>5. CASE StoreFile(r)
  <2>1. /\ SameRequest(q, request'[r])
        /\ q.pc = "store"
        /\ request'[r].pc = "insert"
    BY <1>4, <1>5 DEF StoreFile
  <2>2. q.order \in Orders
    BY <2>1
  <2>3. q.type \in files'[q.order]
    BY <1>5, <2>2 DEF StoreFile
  <2>4. QED
    BY <2>1, <2>3 DEF GoesFrom, SameRequest
<1>6. CASE InsertPhoto(r)
  BY <1>4, <1>6 DEF InsertPhoto, GoesFrom
<1>7. CASE MarkPickedUp(r) \/ MarkDelivered(r)
  BY <1>4, <1>7 DEF MarkPickedUp, MarkDelivered, GoesFrom
<1>8. CASE NotifyTrip(r) \/ RequestFails(r)
  BY <1>8 DEF NotifyTrip, RequestFails, IdleRequest
<1>9. CASE DecideProof(r)
  <2> DEFINE decision == ProofDecision(q.user, q.driver, q.type \in photos[q.order], q.reason)
             b == decision = "skipped"
  <2>1. /\ q.pc = "decide"
        /\ UNCHANGED storeVars
        /\ \/ request' = [request EXCEPT ![r] = IdleRequest]
           \/ /\ decision # "rejected"
              /\ request' = [request EXCEPT ![r].pc = "list", ![r].skipped = b]
    BY <1>9, Zenon DEF DecideProof
  <2>2. CASE request' = [request EXCEPT ![r] = IdleRequest]
    BY <2>2 DEF IdleRequest
  <2>3. CASE decision # "rejected" /\ request' = [request EXCEPT ![r].pc = "list", ![r].skipped = b]
    <3> HIDE DEF b
    <3>1. /\ SameRequest(q, request'[r])
          /\ request'[r].pc = "list"
          /\ request'[r].skipped = b
      BY <1>1, <2>3 DEF RequestState, SameRequest
    <3>2. request'[r].skipped = (decision = "skipped")
      BY <3>1 DEF b
    <3> HIDE DEF decision
    <3>3. GoesFrom(q, request'[r])
      BY <2>1, <2>3, <3>1, <3>2 DEF GoesFrom, decision
    <3>4. QED
      BY <3>1, <3>3
  <2>4. QED
    BY <2>1, <2>2, <2>3
<1>10. CASE ListPhotos(r)
  <2> DEFINE b == q.type \in photos[q.order]
  <2>1. q.pc = "list" /\ request' = [request EXCEPT ![r].pc = "write", ![r].urls = b]
    BY <1>10, Zenon DEF ListPhotos
  <2> HIDE DEF b
  <2>2. /\ SameRequest(q, request'[r])
        /\ request'[r].pc = "write"
        /\ request'[r].skipped = q.skipped
        /\ request'[r].urls = b
    BY <1>1, <2>1 DEF RequestState, SameRequest
  <2>3. QED
    BY <2>1, <2>2 DEF GoesFrom, b
<1>11. ASSUME Travelling(r)
       PROVE  \/ request'[r] = request[r]
              \/ Arrives(request'[r])
              \/ SameRequest(request[r], request'[r]) /\ GoesFrom(request[r], request'[r])
  BY <1>3, <1>5, <1>6, <1>7, <1>8, <1>9, <1>10, <1>11 DEF Travelling
<1>12. QED
  BY <1>2, <1>11, TrailStep DEF tripVars

-----------------------------------------------------------------------------
\* What only grows: files, photo rows and audit rows.
LEMMA TrailGrows ==
  ASSUME TypeInv, [Next]_vars, NEW o \in Orders
  PROVE  photos[o] \subseteq photos'[o] /\ files[o] \subseteq files'[o] /\ audit \subseteq audit'
<1> USE DEF TypeInv, TripInv, TripTypeOK, StoreTypeOK
<1>1. CASE UNCHANGED <<proofVars, tripVars>>
  BY <1>1 DEF proofVars, tripVars
<1>2. ASSUME NEW r \in Requests, Travelling(r)
      PROVE  photos[o] \subseteq photos'[o] /\ audit \subseteq audit'
  <2>1. CASE UNCHANGED storeVars
    BY <2>1 DEF storeVars, proofVars
  <2>2. CASE InsertPhoto(r)
    <3>1. photos' = [photos EXCEPT ![request[r].order] = @ \cup {request[r].type}]
      BY <2>2 DEF InsertPhoto
    <3>2. photos[o] \subseteq photos'[o]
      BY <3>1
    <3>3. QED
      BY <2>2, <3>2 DEF InsertPhoto
  <2>3. CASE MarkPickedUp(r) \/ MarkDelivered(r) \/ NotifyTrip(r)
    BY <2>3 DEF MarkPickedUp, MarkDelivered, NotifyTrip, proofVars
  <2>4. QED
    BY <1>2, <2>1, <2>2, <2>3, TravellingWrites
<1>3. ASSUME NEW r \in Requests, Travelling(r)
      PROVE  files[o] \subseteq files'[o]
  <2>1. CASE StoreFile(r)
    <3>1. files' = [files EXCEPT ![request[r].order] = @ \cup {request[r].type}]
      BY <2>1 DEF StoreFile
    <3>2. QED
      BY <3>1
  <2>2. CASE UNCHANGED files
    BY <2>2
  <2>3. QED
    BY <1>3, <2>1, <2>2
    DEF Travelling, ReadOrder, InsertPhoto, DecideProof, ListPhotos, MarkPickedUp, MarkDelivered,
        NotifyTrip, RequestFails
<1>4. QED
  BY <1>1, <1>2, <1>3, TrailStep

\* A CREDIT row is never taken back.
LEMMA CreditsGrow ==
  ASSUME TypeInv, [Next]_vars, NEW o \in Orders, NEW d \in Drivers
  PROVE  credits'[o][d] >= credits[o][d]
<1>1. credits \in [Orders -> [Drivers -> Nat]]
  BY DEF TypeInv, StoreTypeOK
<1>2. CASE UNCHANGED ledgerVars
  BY <1>1, <1>2 DEF ledgerVars
<1>3. ASSUME NEW w \in Workers, Settle(w)
      PROVE  credits'[o][d] >= credits[o][d]
  <2> DEFINE p == worker[w].order
             e == worker[w].candidate
  <2>1. p \in Orders /\ e \in Drivers
    BY <1>3 DEF Settle, At, TypeInv, DispatchInv, WorkerLocals
  <2>2. credits' = [credits EXCEPT ![p][e] = @ + 1]
    BY <1>3 DEF Settle, SettlementWrites
  <2> HIDE DEF p, e
  <2>3. credits'[o][d] = credits[o][d] \/ credits'[o][d] = credits[o][d] + 1
    BY <1>1, <2>1, <2>2
  <2>4. credits[o][d] \in Nat
    BY <1>1
  <2>5. QED
    BY <2>3, <2>4
<1>4. QED
  BY <1>2, <1>3, LedgerStep

\* A backing row and its photo stay.
LEMMA BackedStays ==
  ASSUME TypeInv, [Next]_vars, NEW o \in Orders, NEW actions, NEW type, Backed(o, actions, type)
  PROVE  Backed(o, actions, type)'
  BY TrailGrows DEF Backed

\* A pickup or a delivery is the only step to its status.
LEMMA AdvanceStep ==
  ASSUME TypeInv, [Next]_vars, NEW o \in Orders, status'[o] # status[o],
         status'[o] \in {"PICKED_UP", "DELIVERED"}
  PROVE  \E r \in Requests : /\ request[r].order = o
                             /\ \/ MarkPickedUp(r) /\ status'[o] = "PICKED_UP"
                                \/ MarkDelivered(r) /\ status'[o] = "DELIVERED"
<1> USE DEF TypeInv, StoreTypeOK
<1>1. ASSUME NEW p \in Orders, Creation(p)
      PROVE  FALSE
  BY <1>1 DEF Creation, CheckFunds, PersistOrder, EnqueueDispatch, CreationFails, storeVars
<1>2. ASSUME NEW p \in Orders, JobStalls(p)
      PROVE  FALSE
  BY <1>2 DEF JobStalls, storeVars
<1>3. ASSUME NEW w \in Workers, Dispatching(w)
      PROVE  FALSE
  <2>1. CASE MarkMatching(w) \/ CancelUnmatched(w) \/ CancelUnfunded(w) \/ Settle(w)
    BY <2>1 DEF MarkMatching, CancelUnmatched, CancelUnfunded, Settle, SettlementWrites
  <2>2. QED
    BY <1>3, <2>1
    DEF Dispatching, TakeJob, LoadOrder, FindDriver, ReadBalance, NotifyOutcome, Broadcast,
        FinishJob, JobThrows, WorkerCrashes, storeVars
<1>4. ASSUME NEW r \in Requests, Travelling(r)
      PROVE  /\ request[r].order = o
             /\ \/ MarkPickedUp(r) /\ status'[o] = "PICKED_UP"
                \/ MarkDelivered(r) /\ status'[o] = "DELIVERED"
  <2>1. CASE MarkPickedUp(r)
    <3>1. status' = [status EXCEPT ![request[r].order] = "PICKED_UP"]
      BY <2>1, Zenon DEF MarkPickedUp
    <3>2. QED
      BY <2>1, <3>1
  <2>2. CASE MarkDelivered(r)
    <3>1. status' = [status EXCEPT ![request[r].order] = "DELIVERED"]
      BY <2>2, Zenon DEF MarkDelivered
    <3>2. QED
      BY <2>2, <3>1
  <2>3. CASE UNCHANGED status
    BY <2>3
  <2>4. QED
    BY <1>4, <2>1, <2>2, <2>3, TravellingWrites DEF InsertPhoto, NotifyTrip, storeVars
<1>5. CASE UNCHANGED vars
  BY <1>5 DEF vars, storeVars
<1>6. QED
  BY <1>1, <1>2, <1>3, <1>4, <1>5 DEF Next

\* An audit row is written by the request that names its order and user; a
\* request that skipped no proof writes the photos it has listed.
LEMMA AuditStep ==
  ASSUME TypeInv, [Next]_vars, NEW e \in audit', e \notin audit
  PROVE  \E r \in Requests :
           /\ e.order = request[r].order /\ e.user = request[r].user
           /\ \/ request[r].pc = "insert" /\ e.photos /\ ~e.reason
              \/ /\ request[r].pc = "write"
                 /\ ~request[r].skipped => e.photos = request[r].urls /\ ~e.reason
<1>1. PICK r \in Requests : Travelling(r)
  BY TrailStep DEF proofVars
<1>2. CASE UNCHANGED storeVars
  BY <1>2 DEF storeVars, proofVars
<1>3. CASE InsertPhoto(r)
  BY <1>3 DEF InsertPhoto, Event, Step
<1>4. CASE MarkPickedUp(r)
  BY <1>4 DEF MarkPickedUp, Event, Step
<1>5. CASE MarkDelivered(r)
  BY <1>5 DEF MarkDelivered, Event, Step
<1>6. CASE NotifyTrip(r)
  BY <1>6 DEF NotifyTrip, proofVars
<1>7. QED
  BY <1>1, <1>2, <1>3, <1>4, <1>5, <1>6, TravellingWrites

\* A photo row is inserted for the leg of its request.
LEMMA PhotoStep ==
  ASSUME TypeInv, [Next]_vars, NEW o \in Orders, NEW t \in photos'[o], t \notin photos[o]
  PROVE  \E r \in Requests : request[r].pc = "insert" /\ request[r].order = o /\ request[r].type = t
<1>1. PICK r \in Requests : Travelling(r)
  BY TrailStep DEF proofVars
<1>2. CASE UNCHANGED photos
  BY <1>2
<1>3. CASE InsertPhoto(r)
  <2>1. /\ photos' = [photos EXCEPT ![request[r].order] = @ \cup {request[r].type}]
        /\ request[r].pc = "insert"
    BY <1>3 DEF InsertPhoto, Step
  <2>2. QED
    BY <2>1 DEF TypeInv, StoreTypeOK
<1>4. QED
  BY <1>1, <1>2, <1>3, TravellingWrites
  DEF MarkPickedUp, MarkDelivered, NotifyTrip, storeVars, proofVars

-----------------------------------------------------------------------------
\* The file of a photo is stored before its row is inserted.
LEMMA FilesStep ==
  ASSUME TypeInv, InsertHasFile, PhotoRowHasFile, [Next]_vars
  PROVE  InsertHasFile' /\ PhotoRowHasFile'
<1>1. ASSUME NEW r \in Requests, request'[r].pc = "insert"
      PROVE  request'[r].type \in files'[request'[r].order]
  <2>1. CASE request'[r] = request[r]
    <3>1. request[r].order \in Orders /\ request[r].type \in files[request[r].order]
      BY <1>1, <2>1 DEF InsertHasFile, TypeInv, TripInv, RequestLocals
    <3>2. QED
      BY <2>1, <3>1, TrailGrows
  <2>2. CASE Arrives(request'[r])
    BY <1>1, <2>2 DEF Arrives
  <2>3. CASE GoesFrom(request[r], request'[r])
    BY <1>1, <2>3 DEF GoesFrom
  <2>4. QED
    BY <1>1, <2>1, <2>2, <2>3, SlotStep
<1>2. ASSUME NEW o \in Orders, NEW t \in photos'[o]
      PROVE  t \in files'[o]
  <2>1. t \in files[o]
    BY <1>2, PhotoStep DEF InsertHasFile, PhotoRowHasFile
  <2>2. QED
    BY <2>1, TrailGrows
<1>3. QED
  BY <1>1, <1>2 DEF InsertHasFile, PhotoRowHasFile

\* The proof rule: without a photo only staff go on, by skipping the proof
\* (order-proof.interface.ts:15-58).
LEMMA DecisionMeans ==
  ASSUME NEW u, NEW d, NEW hasPhoto \in BOOLEAN, NEW reason \in BOOLEAN,
         ProofDecision(u, d, hasPhoto, reason) # "rejected"
  PROVE  IF ProofDecision(u, d, hasPhoto, reason) = "skipped" THEN IsFleetTripDelegate(u) ELSE hasPhoto
<1> DEFINE staff == IsFleetTripDelegate(u)
           own == IsAssignedDriverForOrder(u, d)
<1>1. /\ staff \in BOOLEAN
      /\ own \in BOOLEAN
  BY DEF IsFleetTripDelegate, IsAssignedDriverForOrder
<1>2. ProofDecision(u, d, hasPhoto, reason) =
        CASE ~staff /\ ~own -> "rejected"
          [] hasPhoto /\ (staff \/ own) -> "shown"
          [] ~hasPhoto /\ staff /\ reason -> "skipped"
          [] OTHER -> "rejected"
  BY Zenon DEF ProofDecision
<1> HIDE DEF staff, own
<1>3. CASE hasPhoto /\ (staff \/ own)
  <2>1. ProofDecision(u, d, hasPhoto, reason) = "shown"
    BY <1>2, <1>3, SMT
  <2>2. QED
    BY <1>3, <2>1
<1>4. CASE ~hasPhoto /\ staff /\ reason
  <2>1. ProofDecision(u, d, hasPhoto, reason) = "skipped"
    BY <1>2, <1>4, SMT
  <2>2. QED
    BY <1>4, <2>1 DEF staff
<1>5. CASE ~(hasPhoto /\ (staff \/ own)) /\ ~(~hasPhoto /\ staff /\ reason)
  <2>1. ProofDecision(u, d, hasPhoto, reason) = "rejected"
    BY <1>2, <1>5, SMT
  <2>2. QED
    BY <2>1
<1>6. QED
  BY <1>3, <1>4, <1>5

\* An advance keeps its photo or its reason.
LEMMA AdvanceHasProofStep ==
  ASSUME TypeInv, AdvanceHasProof, [Next]_vars
  PROVE  AdvanceHasProof'
<1> SUFFICES ASSUME NEW r \in Requests, request'[r].pc \in {"list", "write"}
             PROVE  request'[r].skipped \/ request'[r].type \in photos'[request'[r].order]
  BY DEF AdvanceHasProof
<1> DEFINE q == request[r]
<1>1. q \in RequestState /\ (q.pc # "idle" => q.order \in Orders)
  BY DEF TypeInv, TripInv, TripTypeOK, RequestLocals
<1>2. CASE request'[r] = q
  BY <1>1, <1>2, TrailGrows DEF AdvanceHasProof
<1>3. CASE SameRequest(q, request'[r]) /\ GoesFrom(q, request'[r]) /\ request'[r].pc = "list"
  <2> DEFINE hasPhoto == q.type \in photos[q.order]
             decision == ProofDecision(q.user, q.driver, hasPhoto, q.reason)
  <2>1. /\ q.pc = "decide"
        /\ decision # "rejected"
        /\ request'[r].skipped = (decision = "skipped")
    BY <1>3 DEF GoesFrom
  <2>2. hasPhoto \in BOOLEAN /\ q.reason \in BOOLEAN
    BY <1>1 DEF RequestState
  <2>3. decision # "skipped" => hasPhoto
    <3> HIDE DEF hasPhoto
    <3>1. QED
      BY <2>1, <2>2, DecisionMeans
  <2>4. QED
    BY <1>1, <1>3, <2>1, <2>3, TrailGrows DEF SameRequest
<1>4. CASE SameRequest(q, request'[r]) /\ GoesFrom(q, request'[r]) /\ request'[r].pc = "write"
  <2>1. q.pc = "list" /\ request'[r].skipped = q.skipped
    BY <1>4 DEF GoesFrom
  <2>2. QED
    BY <1>1, <1>4, <2>1, TrailGrows DEF SameRequest, AdvanceHasProof
<1>5. ~Arrives(request'[r])
  BY DEF Arrives
<1>6. QED
  BY <1>2, <1>3, <1>4, <1>5, SlotStep

\* A trip whose delivery leg is served was started, with a backing row.
LEMMA DeliveryAfterPickupStep ==
  ASSUME TypeInv, DeliveryAfterPickup, ProofBehindProgress, [Next]_vars
  PROVE  DeliveryAfterPickup'
<1> DEFINE B(o) == Backed(o, {"JOURNEY_STARTED"}, "DEPARTURE")
<1> SUFFICES ASSUME NEW r \in Requests, request'[r].pc # "idle", request'[r].type = "DELIVERY"
             PROVE  \E o \in Orders : o = request'[r].order /\ B(o)'
  BY DEF DeliveryAfterPickup, Backed
<1>1. \E o \in Orders : o = request'[r].order /\ B(o)
  <2>1. ASSUME request[r].pc # "idle", request[r].type = "DELIVERY",
               request'[r].order = request[r].order
        PROVE  \E o \in Orders : o = request'[r].order /\ B(o)
    BY <2>1 DEF DeliveryAfterPickup, TypeInv, TripInv, RequestLocals
  <2>2. CASE Arrives(request'[r])
    BY <2>2 DEF Arrives, RequiredStatus, ProofBehindProgress
  <2>3. CASE SameRequest(request[r], request'[r]) /\ GoesFrom(request[r], request'[r])
    BY <2>1, <2>3 DEF SameRequest, GoesFrom
  <2>4. QED
    BY <2>1, <2>2, <2>3, SlotStep
<1>2. QED
  BY <1>1, BackedStays

\* A driver's request stays within the driver's own trip and rights.
LEMMA DriverRequestStep ==
  ASSUME SettledInv, AdvanceHasProof, DriverRequestIsOwn, [Next]_vars
  PROVE  DriverRequestIsOwn'
<1> SUFFICES ASSUME NEW r \in Requests, request'[r].pc # "idle",
                    ~IsFleetTripDelegate(request'[r].user)
             PROVE  /\ DriverIdOf[request'[r].user] \in Drivers
                    /\ credits'[request'[r].order][DriverIdOf[request'[r].user]] >= 1
                    /\ request'[r].pc \in {"list", "write"} => ~request'[r].skipped
                    /\ request'[r].pc = "write" => request'[r].urls
  BY DEF DriverRequestIsOwn, IsFleetTripDelegate
<1> DEFINE q == request[r]
           x == request'[r]
<1>1. TypeInv
  BY DEF SettledInv
<1>2. q \in RequestState /\ (q.pc # "idle" => q.order \in Orders)
  BY <1>1 DEF TypeInv, TripInv, TripTypeOK, RequestLocals
<1>3. ASSUME NEW o \in Orders, NEW d \in Drivers, credits[o][d] >= 1
      PROVE  credits'[o][d] >= 1
  <2>1. credits[o][d] \in Nat /\ credits'[o][d] \in Nat
    BY <1>1, StepKeepsTypes DEF TypeInv, StoreTypeOK
  <2>2. QED
    BY <1>1, <1>3, <2>1, CreditsGrow
<1>4. ASSUME q.pc # "idle", x.order = q.order, x.user = q.user
      PROVE  /\ DriverIdOf[x.user] \in Drivers
             /\ credits'[x.order][DriverIdOf[x.user]] >= 1
  BY <1>2, <1>3, <1>4 DEF DriverRequestIsOwn
<1>5. CASE Arrives(x)
  <2> DEFINE o == x.order
             d == DriverIdOf[x.user]
  <2>1. /\ o \in Orders
        /\ x.user \in Users
        /\ OnTheRoad(o)
        /\ d # NoDriver
        /\ d = assignedDriver[o]
        /\ x.pc \in {"store", "decide"}
    BY <1>5 DEF Arrives, UserCanAdvanceTripOrder
  <2>2. d \in Drivers
    BY <2>1, TripAssumption
  <2>3. credits[o][d] >= 1
    BY <2>1, PaidStatus DEF SettledInv, PaidMeansSettled, OnTheRoad
  <2>4. QED
    BY <1>3, <2>1, <2>2, <2>3
<1>6. CASE x = q
  <2>1. q.pc # "idle" /\ ~IsFleetTripDelegate(q.user)
    BY <1>6
  <2>2. QED
    BY <1>4, <1>6, <2>1 DEF DriverRequestIsOwn
<1>7. CASE SameRequest(q, x) /\ GoesFrom(q, x)
  <2>1. /\ x.order = q.order
        /\ x.user = q.user
        /\ q.pc # "idle"
        /\ ~IsFleetTripDelegate(q.user)
    BY <1>7 DEF SameRequest, GoesFrom
  <2>2. ASSUME x.pc = "list"
        PROVE  ~x.skipped
    <3> DEFINE hasPhoto == q.type \in photos[q.order]
               decision == ProofDecision(q.user, q.driver, hasPhoto, q.reason)
    <3>1. decision # "rejected" /\ x.skipped = (decision = "skipped")
      BY <1>7, <2>2 DEF GoesFrom
    <3>2. hasPhoto \in BOOLEAN /\ q.reason \in BOOLEAN
      BY <1>2 DEF RequestState
    <3> HIDE DEF hasPhoto
    <3>3. decision # "skipped"
      BY <2>1, <3>1, <3>2, DecisionMeans
    <3>4. QED
      BY <3>1, <3>3
  <2>3. ASSUME x.pc = "write"
        PROVE  ~x.skipped /\ x.urls
    <3>1. /\ q.pc = "list"
          /\ x.skipped = q.skipped
          /\ x.urls = (q.type \in photos[q.order])
      BY <1>7, <2>3 DEF GoesFrom
    <3>2. ~q.skipped
      BY <2>1, <3>1 DEF DriverRequestIsOwn
    <3>3. q.type \in photos[q.order]
      BY <3>1, <3>2 DEF AdvanceHasProof
    <3>4. QED
      BY <3>1, <3>2, <3>3
  <2>4. QED
    BY <1>4, <2>1, <2>2, <2>3
<1>8. QED
  BY <1>1, <1>5, <1>6, <1>7, SlotStep

-----------------------------------------------------------------------------
\* A trip advances only with a backing row of its own.
LEMMA ProgressStep ==
  ASSUME SettledInv, AdvanceHasProof, DeliveryAfterPickup, ProofBehindProgress, [Next]_vars
  PROVE  ProofBehindProgress'
<1> DEFINE Started(o) == Backed(o, {"JOURNEY_STARTED"}, "DEPARTURE")
           Ended(o) == Backed(o, {"BOOKING_COMPLETED", "MANUAL_COMPLETION_BY_OPS"}, "DELIVERY")
<1> SUFFICES ASSUME NEW o \in Orders
             PROVE  /\ status'[o] \in {"PICKED_UP", "DELIVERED"} => Started(o)'
                    /\ status'[o] = "DELIVERED" => Ended(o)'
  BY DEF ProofBehindProgress, Backed
<1>1. TypeInv
  BY DEF SettledInv
<1>2. /\ Started(o) => Started(o)'
      /\ Ended(o) => Ended(o)'
  BY <1>1, BackedStays
<1>3. CASE status'[o] = status[o]
  <2>1. /\ status[o] \in {"PICKED_UP", "DELIVERED"} => Started(o)
        /\ status[o] = "DELIVERED" => Ended(o)
    BY DEF ProofBehindProgress
  <2> HIDE DEF Started, Ended
  <2>2. QED
    BY <1>2, <1>3, <2>1
<1>4. ASSUME NEW r \in Requests, request[r].order = o, MarkPickedUp(r), status'[o] = "PICKED_UP"
      PROVE  Started(o)'
  <2> DEFINE e == Event(request[r], "JOURNEY_STARTED", request[r].urls, request[r].skipped)
  <2>1. e \in audit' /\ photos' = photos
    BY <1>4 DEF MarkPickedUp
  <2>2. request[r].pc = "write" /\ request[r].type = "DEPARTURE"
    BY <1>4 DEF MarkPickedUp, Step
  <2>3. request[r].skipped \/ "DEPARTURE" \in photos[o]
    BY <1>4, <2>2 DEF AdvanceHasProof
  <2>4. /\ e.order = o
        /\ e.action = "JOURNEY_STARTED"
        /\ e.reason = request[r].skipped
    BY <1>4 DEF Event
  <2> HIDE DEF e
  <2>5. QED
    BY <2>1, <2>3, <2>4 DEF Backed
<1>5. ASSUME NEW r \in Requests, request[r].order = o, MarkDelivered(r)
      PROVE  Started(o)' /\ Ended(o)'
  <2> DEFINE action == IF request[r].skipped THEN "MANUAL_COMPLETION_BY_OPS" ELSE "BOOKING_COMPLETED"
             e == Event(request[r], action, request[r].urls, request[r].skipped)
  <2>1. e \in audit' /\ photos' = photos
    BY <1>5 DEF MarkDelivered
  <2>2. request[r].pc = "write" /\ request[r].type = "DELIVERY"
    BY <1>5 DEF MarkDelivered, Step
  <2>3. request[r].skipped \/ "DELIVERY" \in photos[o]
    BY <1>5, <2>2 DEF AdvanceHasProof
  <2>4. /\ e.order = o
        /\ e.action \in {"BOOKING_COMPLETED", "MANUAL_COMPLETION_BY_OPS"}
        /\ e.reason = request[r].skipped
    BY <1>5 DEF Event
  <2>5. Started(o)
    BY <1>5, <2>2 DEF DeliveryAfterPickup
  <2> HIDE DEF e
  <2>6. Ended(o)'
    BY <2>1, <2>3, <2>4 DEF Backed
  <2>7. QED
    BY <1>2, <2>5, <2>6
<1>6. CASE status'[o] # status[o] /\ status'[o] \in {"PICKED_UP", "DELIVERED"}
  <2>1. PICK r \in Requests : /\ request[r].order = o
                              /\ \/ MarkPickedUp(r) /\ status'[o] = "PICKED_UP"
                                 \/ MarkDelivered(r) /\ status'[o] = "DELIVERED"
    BY <1>1, <1>6, AdvanceStep
  <2> HIDE DEF Started, Ended
  <2>2. QED
    BY <1>4, <1>5, <2>1
<1>7. QED
  <2> HIDE DEF Started, Ended
  <2>1. QED
    BY <1>3, <1>6

\* A new audit row of a driver lists photos, gives no reason, and is about an
\* order that driver was credited for.
LEMMA OwnTripStep ==
  ASSUME SettledInv, DriverRequestIsOwn, AuditedAreDrivers, DriverActsOnOwnTrip, [Next]_vars
  PROVE  AuditedAreDrivers' /\ DriverActsOnOwnTrip'
<1> SUFFICES ASSUME NEW e \in audit', ~IsFleetTripDelegate(e.user)
             PROVE  /\ DriverIdOf[e.user] \in Drivers
                    /\ credits'[e.order][DriverIdOf[e.user]] >= 1
                    /\ e.photos
                    /\ ~e.reason
  BY DEF AuditedAreDrivers, DriverActsOnOwnTrip, IsFleetTripDelegate
<1>1. TypeInv /\ TypeInv'
  BY StepKeepsTypes DEF SettledInv
<1>2. ASSUME NEW r \in Requests, e.order = request[r].order, e.user = request[r].user,
             \/ request[r].pc = "insert" /\ e.photos /\ ~e.reason
             \/ /\ request[r].pc = "write"
                /\ ~request[r].skipped => e.photos = request[r].urls /\ ~e.reason
      PROVE  /\ DriverIdOf[e.user] \in Drivers
             /\ e.order \in Orders
             /\ credits[e.order][DriverIdOf[e.user]] >= 1
             /\ e.photos
             /\ ~e.reason
  <2>1. request[r].pc # "idle"
    BY <1>2
  <2>2. e.order \in Orders
    BY <1>1, <1>2, <2>1 DEF TypeInv, TripInv, RequestLocals
  <2>3. QED
    BY <1>2, <2>1, <2>2 DEF DriverRequestIsOwn
<1>3. /\ DriverIdOf[e.user] \in Drivers
      /\ e.order \in Orders
      /\ credits[e.order][DriverIdOf[e.user]] >= 1
      /\ e.photos
      /\ ~e.reason
  <2>1. CASE e \notin audit
    BY <1>1, <1>2, <2>1, AuditStep
  <2>2. CASE e \in audit
    <3>1. e.order \in Orders
      BY <1>1, <2>2 DEF TypeInv, TripInv, TripTypeOK, AuditEvent
    <3>2. QED
      BY <2>2, <3>1 DEF AuditedAreDrivers, DriverActsOnOwnTrip
  <2>3. QED
    BY <2>1, <2>2
<1>4. /\ credits[e.order][DriverIdOf[e.user]] \in Nat
      /\ credits'[e.order][DriverIdOf[e.user]] \in Nat
  BY <1>1, <1>3 DEF TypeInv, StoreTypeOK
<1>5. QED
  BY <1>1, <1>3, <1>4, CreditsGrow

\* Nothing is uploaded, audited or asked for in the initial state.
LEMMA TrailInvInit == Init => TrailInv
<1> SUFFICES ASSUME Init PROVE TrailInv
  OBVIOUS
<1>1. /\ \A r \in Requests : request[r].pc = "idle"
      /\ \A o \in Orders : status[o] = "NONE" /\ photos[o] = {}
      /\ audit = {}
  BY DEF Init, StoreInit, TripInit, IdleRequest
<1>2. QED
  BY <1>1, SettledInvInit
  DEF TrailInv, InsertHasFile, PhotoRowHasFile, AdvanceHasProof, DeliveryAfterPickup,
      DriverRequestIsOwn, ProofBehindProgress, AuditedAreDrivers, DriverActsOnOwnTrip

\* TrailInv is inductive.
LEMMA TrailInvStep ==
  ASSUME TrailInv, [Next]_vars
  PROVE  TrailInv'
<1>1. TypeInv /\ SettledInv
  BY DEF TrailInv, SettledInv
<1>2. QED
  BY <1>1, SettledInvStep, FilesStep, AdvanceHasProofStep, DeliveryAfterPickupStep,
     DriverRequestStep, ProgressStep, OwnTripStep DEF TrailInv

\* Every photo row points at a file that was stored before it
\* (orders.service.ts, uploadOrderPhoto).
THEOREM PhotosAreStored == Spec => []PhotoRowHasFile
<1>1. TrailInv => PhotoRowHasFile
  BY DEF TrailInv
<1>2. QED
  BY <1>1, TrailInvInit, TrailInvStep, PTL DEF Spec

\* Whatever requests overtake each other, a trip that has started or ended left
\* an audit row backed by a photo of its leg or by an override reason
\* (order-proof.interface.ts:15-58).
THEOREM ProgressIsBacked == Spec => []ProofBehindProgress
<1>1. TrailInv => ProofBehindProgress
  BY DEF TrailInv
<1>2. QED
  BY <1>1, TrailInvInit, TrailInvStep, PTL DEF Spec

\* A driver in the audit trail was credited for that order, and neither advanced
\* it without photos nor gave a reason instead (order-trip.interface.ts).
THEOREM DriversActOnOwnTrips == Spec => []DriverActsOnOwnTrip
<1>1. TrailInv => DriverActsOnOwnTrip
  BY DEF TrailInv
<1>2. QED
  BY <1>1, TrailInvInit, TrailInvStep, PTL DEF Spec

=============================================================================
