--------------------------- MODULE ApprovalFlowProofs ---------------------------
(* Theorems about ApprovalFlow, for every number of requests and steps and every set
   of conditions. *)
EXTENDS ApprovalFlow, FiniteSetTheorems, WellFoundedInduction, TLAPS

(* The workflow states with the version and the steps of f. *)
OverStepsOf(f) ==
    [version : {f.version}, current : StepsOf(f) \cup {None},
     verdict : [StepsOf(f) -> Verdict]]

(* A workflow state over steps at positions pos. *)
TypedFlow(f, pos) ==
    f # None =>
        /\ StepsOf(f) \subseteq DOMAIN pos
        /\ f \in OverStepsOf(f)

OrderedFlow(f, pos) ==
    Waits(f) => \A s \in StepsOf(f) : f.verdict[s] = "APPROVED" <=> pos[s] < pos[f.current]

AllApproved(f) == \A s \in StepsOf(f) : f.verdict[s] = "APPROVED"

StateOrFree == RequestState \cup {"FREE"}

TypedRow(row, pos) ==
    /\ row = [state |-> row.state, flow |-> row.flow]
    /\ row.state \in StateOrFree
    /\ TypedFlow(row.flow, pos)

(* Positions are distinct, and below the number of steps that were created: what makes
   "the first step" and "after the last step" mean something. *)
TypedSteps ==
    /\ enabled \in BOOLEAN
    /\ lastStep \in 0..MaxStep
    /\ DOMAIN position \subseteq 1..lastStep
    /\ position \in [DOMAIN position -> Nat]
    /\ IsInjective(position)
    /\ \A s \in DOMAIN position : position[s] < lastStep

Typed ==
    /\ TypedSteps
    /\ request = [r \in Request |-> request[r]]
    /\ \A r \in Request : TypedRow(request[r], position)

(* Order is part of the invariant only where nobody moves the steps. *)
Ordered == ~Reorders => \A r \in Request : OrderedFlow(FlowOf(r), position)

-----------------------------------------------------------------------------
(* The first step of a set. *)

LEMMA NatMin ==
  ASSUME NEW T, T \subseteq Nat, T # {}
  PROVE  \E x \in T : \A y \in T : x <= y
  <1> DEFINE R == {ss \in Nat \X Nat : ss[1] < ss[2]}
  <1>1. IsWellFoundedOn(OpToRel(<, Nat), Nat)
    BY NatLessThanWellFounded, Zenon
  <1>2. OpToRel(<, Nat) = R
    BY Zenon DEF OpToRel
  <1>3. PICK x \in T : \A y \in T : ~ (<<y, x>> \in R)
    BY <1>1, <1>2, WFMin, Zenon
  <1>4. \A y \in T : ~(y < x)
    BY <1>3
  <1>5. QED
    BY <1>4

LEMMA FirstIsFirst ==
  ASSUME TypedSteps, NEW S, S \subseteq DOMAIN position, S # {}
  PROVE  /\ First(S) \in S
         /\ First(S) # None
         /\ \A t \in S : position[First(S)] <= position[t]
  <1> DEFINE T == {position[s] : s \in S}
  <1>1. T \subseteq Nat /\ T # {}
    BY DEF TypedSteps
  <1>2. PICK x \in T : \A y \in T : x <= y
    BY <1>1, NatMin
  <1>3. \E s \in S : \A t \in S : position[s] <= position[t]
    BY <1>2
  <1>4. /\ First(S) \in S
        /\ \A t \in S : position[First(S)] <= position[t]
    BY <1>3 DEF First
  <1>5. S \subseteq Step
    BY ConstantsAssumption DEF TypedSteps, Step
  <1>6. QED
    BY <1>4, <1>5, ConstantsAssumption

LEMMA FirstOfNone == First({}) = None
  BY DEF First

-----------------------------------------------------------------------------
(* What the routines of ApprovalWorkflowState and Request do to a workflow state. *)

LEMMA InstantiatedOK ==
  ASSUME TypedSteps
  PROVE  TypedFlow(Instantiated, position) /\ OrderedFlow(Instantiated, position)
  <1> DEFINE zero == {s \in DOMAIN position : position[s] = 0}
  <1>1. /\ Instantiated.current = First(zero)
        /\ Instantiated.verdict = [s \in DOMAIN position |-> "PENDING"]
    BY DEF Instantiated
  <1>2. StepsOf(Instantiated) = DOMAIN position
    BY <1>1 DEF StepsOf
  <1>3. First(zero) \in zero \cup {None}
    BY FirstIsFirst, FirstOfNone
  <1>4. TypedFlow(Instantiated, position)
    BY <1>1, <1>2, <1>3 DEF TypedFlow, OverStepsOf, Verdict, Instantiated
  <1>5. ASSUME Waits(Instantiated), NEW s \in DOMAIN position
        PROVE  ~(position[s] < position[First(zero)])
    <2>1. position[First(zero)] = 0
      BY <1>1, <1>3, <1>5 DEF Waits
    <2>2. QED
      BY <2>1 DEF TypedSteps
  <1>6. OrderedFlow(Instantiated, position)
    BY <1>1, <1>2, <1>5 DEF OrderedFlow
  <1>7. QED
    BY <1>4, <1>6

LEMMA LaterIsAhead ==
  ASSUME TypedSteps, NEW f, TypedFlow(f, position), Waits(f)
  PROVE  /\ f.current \in StepsOf(f)
         /\ Later(f) \subseteq StepsOf(f)
         /\ StepsOf(f) \subseteq DOMAIN position
         /\ \A s \in StepsOf(f) : /\ s \in Later(f) <=> position[f.current] < position[s]
                                  /\ s \notin Later(f) /\ s # f.current
                                        => position[s] < position[f.current]
  <1>1. /\ f.current \in StepsOf(f)
        /\ StepsOf(f) \subseteq DOMAIN position
    BY DEF TypedFlow, OverStepsOf, Waits
  <1>2. \A s \in StepsOf(f) : position[s] \in Nat
    BY <1>1 DEF TypedSteps
  <1>3. \A s \in StepsOf(f) : s # f.current => position[s] # position[f.current]
    BY <1>1 DEF TypedSteps, IsInjective
  <1>4. QED
    BY <1>1, <1>2, <1>3 DEF Later

LEMMA SameStepsTyped ==
  ASSUME NEW f, NEW pos, TypedFlow(f, pos), f # None, NEW g \in OverStepsOf(f)
  PROVE  TypedFlow(g, pos) /\ StepsOf(g) = StepsOf(f)
  <1>1. /\ g.version = f.version
        /\ g.verdict \in [StepsOf(f) -> Verdict]
    BY DEF OverStepsOf
  <1>2. StepsOf(g) = StepsOf(f)
    BY <1>1 DEF StepsOf
  <1>3. OverStepsOf(g) = OverStepsOf(f)
    BY <1>1, <1>2 DEF OverStepsOf
  <1>4. QED
    BY <1>2, <1>3 DEF TypedFlow

(* Approving the current step moves to the first one after it. *)
LEMMA ApprovedOK ==
  ASSUME TypedSteps, NEW f, TypedFlow(f, position), Waits(f)
  PROVE  /\ TypedFlow(Approved(f), position)
         /\ OrderedFlow(f, position) => OrderedFlow(Approved(f), position)
         /\ OrderedFlow(f, position) /\ ~Waits(Approved(f)) /\ Approved(f) # None =>
               AllApproved(Approved(f))
  <1> DEFINE g == Approved(f)
             next == First(Later(f))
             after == [f.verdict EXCEPT ![f.current] = "APPROVED"]
  <1>1. /\ f # None
        /\ f.verdict \in [StepsOf(f) -> Verdict]
    BY DEF TypedFlow, OverStepsOf, Waits
  <1>2. /\ after \in [StepsOf(f) -> Verdict]
        /\ \A s \in StepsOf(f) :
              after[s] = IF s = f.current THEN "APPROVED" ELSE f.verdict[s]
    BY <1>1 DEF Verdict
  <1>3. /\ Later(f) = {} => next = None
        /\ Later(f) # {} => /\ next \in Later(f)
                            /\ next # None
                            /\ \A t \in Later(f) : position[next] <= position[t]
    BY FirstIsFirst, FirstOfNone, LaterIsAhead
  <1>4. next \in StepsOf(f) \cup {None}
    BY <1>3, LaterIsAhead
  <1>5. /\ TypedFlow(g, position)
        /\ StepsOf(g) = StepsOf(f)
        /\ g.current = next
        /\ g.verdict = after
    <2>1. f \in OverStepsOf(f)
      BY <1>1 DEF TypedFlow
    <2>2. /\ g \in OverStepsOf(f)
          /\ g.current = next
          /\ g.verdict = after
      <3> HIDE DEF next
      <3> QED BY <2>1, <1>1, <1>2, <1>4 DEF OverStepsOf, Approved, next
    <2>3. QED
      BY <1>1, <2>2, SameStepsTyped
  <1>6. ASSUME OrderedFlow(f, position)
        PROVE  \A s \in StepsOf(f) : g.verdict[s] = "APPROVED" <=> s \notin Later(f)
    BY <1>2, <1>5, <1>6, LaterIsAhead DEF OrderedFlow, TypedSteps
  <1>7. ASSUME Waits(g), NEW s \in StepsOf(f)
        PROVE  s \notin Later(f) <=> position[s] < position[next]
    <2>1. next \in Later(f) /\ \A t \in Later(f) : position[next] <= position[t]
      BY <1>3, <1>5, <1>7 DEF Waits
    <2>2. /\ position[s] \in Nat /\ position[next] \in Nat /\ position[f.current] \in Nat
          /\ position[f.current] < position[next]
      BY <2>1, LaterIsAhead DEF TypedSteps
    <2>3. s \notin Later(f) => position[s] <= position[f.current]
      BY <2>2, LaterIsAhead
    <2>4. QED
      BY <2>1, <2>2, <2>3
  <1>8. OrderedFlow(f, position) => OrderedFlow(g, position)
    BY <1>5, <1>6, <1>7 DEF OrderedFlow
  <1>9. ASSUME OrderedFlow(f, position), ~Waits(g), g # None
        PROVE  AllApproved(g)
    <2>1. Later(f) = {}
      BY <1>3, <1>5, <1>9 DEF Waits
    <2>2. QED
      BY <2>1, <1>5, <1>6, <1>9 DEF AllApproved
  <1>10. QED
    BY <1>5, <1>8, <1>9
(* Approving on as long as the conditions hold stops at the first step whose condition
   does not. *)
LEMMA AutoApprovedOK ==
  ASSUME TypedSteps, NEW f, TypedFlow(f, position)
  PROVE  /\ TypedFlow(AutoApproved(f), position)
         /\ OrderedFlow(f, position) => OrderedFlow(AutoApproved(f), position)
         /\ OrderedFlow(f, position) /\ Waits(f)
               /\ ~Waits(AutoApproved(f)) /\ AutoApproved(f) # None =>
               AllApproved(AutoApproved(f))
  <1>1. CASE ~Waits(f)
    BY <1>1 DEF AutoApproved
  <1>2. CASE Waits(f)
    <2> DEFINE ahead == {f.current} \cup Later(f)
               stop == First(ahead \ Conditional)
               passed == {s \in ahead : stop = None \/ position[s] < position[stop]}
               after == [s \in StepsOf(f) |->
                            IF s \in passed THEN "APPROVED" ELSE f.verdict[s]]
               g == AutoApproved(f)
    <2>1. /\ f # None
          /\ f \in OverStepsOf(f)
          /\ f.verdict \in [StepsOf(f) -> Verdict]
      BY <1>2 DEF TypedFlow, OverStepsOf, Waits
    <2>2. /\ ahead \subseteq StepsOf(f)
          /\ StepsOf(f) \subseteq DOMAIN position
          /\ f.current \in StepsOf(f)
          /\ \A s \in StepsOf(f) : s \notin ahead => position[s] < position[f.current]
          /\ \A s \in ahead : s # f.current => position[f.current] < position[s]
      BY <1>2, LaterIsAhead
    <2>3. /\ ahead \ Conditional = {} => stop = None
          /\ ahead \ Conditional # {} => /\ stop \in ahead
                                  /\ stop # None
      BY <2>2, FirstIsFirst, FirstOfNone
    <2>4. /\ after \in [StepsOf(f) -> Verdict]
          /\ stop \in StepsOf(f) \cup {None}
      BY <2>1, <2>2, <2>3 DEF Verdict
    <2>5. /\ g \in OverStepsOf(f)
          /\ g.current = stop
          /\ g.verdict = after
      <3>1. f \in [version : {f.version}, current : StepsOf(f) \cup {None},
                   verdict : [StepsOf(f) -> Verdict]]
        BY <2>1 DEF OverStepsOf
      <3>2. g.current = stop
        BY <1>2, <3>1 DEF AutoApproved
      <3>3. g.verdict = after
        BY <1>2, <3>1 DEF AutoApproved
      <3>4. g = [f EXCEPT !.current = g.current, !.verdict = g.verdict]
        BY <1>2, <3>1 DEF AutoApproved
      <3>5. g.current \in StepsOf(f) \cup {None} /\ g.verdict \in [StepsOf(f) -> Verdict]
        BY <2>4, <3>2, <3>3
      <3> HIDE DEF stop, after, g
      <3>6. QED
        BY <3>1, <3>2, <3>3, <3>4, <3>5 DEF OverStepsOf
    <2>6. TypedFlow(g, position) /\ StepsOf(g) = StepsOf(f)
      BY <2>1, <2>5, SameStepsTyped
    <2>7. ASSUME OrderedFlow(f, position), NEW s \in StepsOf(f)
          PROVE  after[s] = "APPROVED" <=> s \in passed \/ s \notin ahead
      BY <1>2, <2>2, <2>7 DEF OrderedFlow, TypedSteps
    <2>8. ASSUME Waits(g), NEW s \in StepsOf(f)
          PROVE  s \in passed \/ s \notin ahead <=> position[s] < position[stop]
      <3>1. stop \in ahead /\ stop # None
        BY <2>3, <2>5, <2>8 DEF Waits
      <3>2. position[s] \in Nat /\ position[stop] \in Nat /\ position[f.current] \in Nat
        BY <2>2, <3>1 DEF TypedSteps
      <3>3. position[f.current] <= position[stop]
        BY <2>2, <3>1, <3>2
      <3>4. QED
        BY <2>2, <3>1, <3>2, <3>3
    <2>9. OrderedFlow(f, position) => OrderedFlow(g, position)
      BY <2>5, <2>6, <2>7, <2>8 DEF OrderedFlow
    <2>10. ASSUME OrderedFlow(f, position), ~Waits(g), g # None
           PROVE  AllApproved(g)
      <3>1. stop = None
        BY <2>5, <2>10 DEF Waits
      <3>2. QED
        BY <2>5, <2>6, <2>7, <2>10, <3>1 DEF AllApproved
    <2>11. QED
      BY <2>6, <2>9, <2>10
  <1>3. QED
    BY <1>1, <1>2

LEMMA RejectedStepOK ==
  ASSUME TypedSteps, NEW f, TypedFlow(f, position), Waits(f)
  PROVE  /\ TypedFlow(RejectedStep(f), position)
         /\ OrderedFlow(f, position) => OrderedFlow(RejectedStep(f), position)
  <1> DEFINE g == RejectedStep(f)
             after == [f.verdict EXCEPT ![f.current] = "REJECTED"]
  <1>1. /\ f # None
        /\ f \in OverStepsOf(f)
        /\ f.verdict \in [StepsOf(f) -> Verdict]
        /\ f.current \in StepsOf(f)
        /\ StepsOf(f) \subseteq DOMAIN position
    BY DEF TypedFlow, OverStepsOf, Waits
  <1>2. /\ after \in [StepsOf(f) -> Verdict]
        /\ \A s \in StepsOf(f) :
              after[s] = IF s = f.current THEN "REJECTED" ELSE f.verdict[s]
    BY <1>1 DEF Verdict
  <1>3. /\ g \in OverStepsOf(f)
        /\ g.current = f.current
        /\ g.verdict = after
    BY <1>1, <1>2 DEF OverStepsOf, RejectedStep
  <1>4. TypedFlow(g, position) /\ StepsOf(g) = StepsOf(f)
    BY <1>1, <1>3, SameStepsTyped
  <1>5. ~(position[f.current] < position[f.current])
    BY <1>1 DEF TypedSteps
  <1>6. OrderedFlow(f, position) => OrderedFlow(g, position)
    BY <1>2, <1>3, <1>4, <1>5, <1>1 DEF OrderedFlow, Waits
  <1>7. QED
    BY <1>4, <1>6
-----------------------------------------------------------------------------
(* What saving a request leaves. *)

(* Row row may follow the row of request r. *)
Follows(r, row) ==
    /\ TypedRow(row, position)
    /\ OrderedFlow(FlowOf(r), position) => OrderedFlow(row.flow, position)
    /\ /\ OrderedFlow(FlowOf(r), position)
       /\ StateOf(r) # "ACCEPTED"
       /\ Waits(FlowOf(r))
       /\ row.state = "ACCEPTED"
       /\ row.flow # None
       /\ ~Waits(row.flow)
       => AllApproved(row.flow)
    /\ StateOf(r) \in {"CANCELED", "REJECTED", "COMPLETE"} => row.state # "ACCEPTED"

LEMMA SavedOK ==
  ASSUME TypedSteps, NEW s \in StateOrFree, NEW f, TypedFlow(f, position)
  PROVE  /\ TypedRow(Saved(s, f), position)
         /\ OrderedFlow(f, position) => OrderedFlow(Saved(s, f).flow, position)
         /\ /\ OrderedFlow(f, position)
            /\ Waits(f)
            /\ ~Waits(Saved(s, f).flow)
            /\ Saved(s, f).flow # None
            => AllApproved(Saved(s, f).flow)
         /\ s \notin AcceptFrom => Saved(s, f).state = s
         /\ Saved(s, f).state \in {s, "ACCEPTED"}
         /\ ~Waits(f) => Saved(s, f).state = s
  <1>1. /\ Saved(s, f) = [state |-> Saved(s, f).state, flow |-> Saved(s, f).flow]
        /\ Saved(s, f).flow = AutoApproved(f)
        /\ Saved(s, f).state = AcceptIfDone(f, AutoApproved(f), s)
    BY DEF Saved
  <1>2. /\ AcceptIfDone(f, AutoApproved(f), s) \in {s, "ACCEPTED"}
        /\ s \notin AcceptFrom => AcceptIfDone(f, AutoApproved(f), s) = s
        /\ ~Waits(f) => AcceptIfDone(f, AutoApproved(f), s) = s
    BY DEF AcceptIfDone
  <1>3. Saved(s, f).state \in StateOrFree
    BY <1>1, <1>2 DEF StateOrFree, RequestState
  <1>4. QED
    BY <1>1, <1>2, <1>3, AutoApprovedOK DEF TypedRow

(* Saving the workflow state as it was. *)
LEMMA SavedFollows ==
  ASSUME TypedSteps, NEW r \in Request, TypedFlow(FlowOf(r), position),
         NEW s \in StateOrFree,
         StateOf(r) \in {"CANCELED", "REJECTED", "COMPLETE"} => s \notin AcceptFrom
  PROVE  Follows(r, Saved(s, FlowOf(r)))
  <1>1. "ACCEPTED" \in AcceptFrom
    BY DEF AcceptFrom
  <1>2. QED
    BY <1>1, SavedOK DEF Follows

LEMMA SetUpFollows ==
  ASSUME TypedSteps, NEW r \in Request, StateOf(r) \in {"SUBMITTED", "FREE"},
         NEW row, row = SetUp \/ row = [SetUp EXCEPT !.state = "SUBMITTED"]
  PROVE  Follows(r, row) /\ OrderedFlow(row.flow, position)
  <1>1. "SUBMITTED" \in StateOrFree
    BY DEF StateOrFree, RequestState
  <1>2. /\ TypedFlow(None, position)
        /\ OrderedFlow(None, position)
    BY DEF TypedFlow, OrderedFlow, Waits
  <1>3. CASE enabled
    <2>1. SetUp = Saved("SUBMITTED", Instantiated)
      BY <1>3 DEF SetUp
    <2>2. /\ TypedRow(SetUp, position)
          /\ OrderedFlow(SetUp.flow, position)
          /\ SetUp.state = "ACCEPTED" /\ ~Waits(SetUp.flow) /\ SetUp.flow # None =>
                AllApproved(SetUp.flow)
      BY <1>1, <2>1, InstantiatedOK, SavedOK
    <2>3. /\ row.flow = SetUp.flow
          /\ row = SetUp \/ row.state = "SUBMITTED"
          /\ TypedRow(row, position)
      BY <1>1, <2>2 DEF TypedRow
    <2>4. QED
      BY <2>2, <2>3 DEF Follows
  <1>4. CASE ~enabled
    <2>1. /\ row = [state |-> "SUBMITTED", flow |-> None]
          /\ row.state = "SUBMITTED"
          /\ row.flow = None
      BY <1>4 DEF SetUp
    <2>2. QED
      BY <1>1, <1>2, <2>1 DEF Follows, TypedRow
  <1>5. QED
    BY <1>3, <1>4 DEF TypedSteps
-----------------------------------------------------------------------------
(* The actions of requests. *)

RequestStep(r) ==
    \/ Submit(r)
    \/ Review(r)
    \/ Process(r)
    \/ \E outcome \in {"COMPLETE", "FAILED"} : End(r, outcome)

LEMMA ApproveStepFollows ==
  ASSUME Typed, NEW r \in Request, ApproveStep(r)
  PROVE  \E row : Store(r, row) /\ Follows(r, row)
  <1> DEFINE f == FlowOf(r)
             row == [state |-> AcceptIfDone(f, Approved(f), StateOf(r)), flow |-> Approved(f)]
  <1>1. /\ TypedSteps
        /\ TypedFlow(f, position)
        /\ StateOf(r) \in StateOrFree
        /\ Waits(f)
        /\ Store(r, row)
    BY DEF ApproveStep, Typed, TypedRow, FlowOf, StateOf
  <1>2. /\ row.state \in {StateOf(r), "ACCEPTED"}
        /\ StateOf(r) \notin AcceptFrom => row.state = StateOf(r)
    BY DEF AcceptIfDone
  <1>3. TypedRow(row, position)
    BY <1>1, <1>2, ApprovedOK DEF TypedRow, StateOrFree, RequestState
  <1>4. Follows(r, row)
    BY <1>1, <1>2, <1>3, ApprovedOK DEF Follows, AcceptFrom
  <1>5. QED
    BY <1>1, <1>4

LEMMA RejectFollows ==
  ASSUME Typed, NEW r \in Request, RejectUI(r) \/ RejectStepAPI(r) \/ RejectAPI(r)
  PROVE  \E row : Store(r, row) /\ Follows(r, row)
  <1> DEFINE f == FlowOf(r)
  <1>1. /\ TypedSteps
        /\ TypedFlow(f, position)
        /\ StateOf(r) \in StateOrFree
        /\ "REJECTED" \in StateOrFree
        /\ "REJECTED" \notin AcceptFrom
        /\ "ACCEPTED" \in AcceptFrom
    BY DEF Typed, TypedRow, FlowOf, StateOf, StateOrFree, RequestState, AcceptFrom
  <1>2. ASSUME NEW g, TypedFlow(g, position),
               OrderedFlow(f, position) => OrderedFlow(g, position)
        PROVE  Follows(r, Saved("REJECTED", g))
    BY <1>1, <1>2, SavedOK DEF Follows
  <1>3. CASE RejectUI(r)
    <2>1. CASE f = None
      BY <1>2, <1>1, <1>3, <2>1 DEF RejectUI
    <2>2. CASE f # None
      <3>1. Waits(f) /\ Store(r, Saved("REJECTED", RejectedStep(f)))
        BY <1>3, <2>2 DEF RejectUI
      <3>2. QED
        BY <1>1, <1>2, <3>1, RejectedStepOK
    <2>3. QED
      BY <2>1, <2>2
  <1>4. CASE RejectStepAPI(r)
    <2>1. Waits(f)
      BY <1>4 DEF RejectStepAPI
    <2>2. CASE StateOf(r) \in RejectFrom
      <3>1. Store(r, Saved("REJECTED", RejectedStep(f)))
        BY <1>4, <2>2 DEF RejectStepAPI
      <3>2. QED
        BY <1>1, <1>2, <2>1, <3>1, RejectedStepOK
    <2>3. CASE StateOf(r) \notin RejectFrom
      <3> DEFINE row == [state |-> StateOf(r), flow |-> RejectedStep(f)]
      <3>1. Store(r, row)
        BY <1>4, <2>3 DEF RejectStepAPI
      <3>2. TypedRow(row, position) /\ row.state = StateOf(r)
        BY <1>1, <2>1, RejectedStepOK DEF TypedRow
      <3>3. Follows(r, row)
        BY <1>1, <2>1, <3>2, RejectedStepOK DEF Follows
      <3>4. QED
        BY <3>1, <3>3
    <2>4. QED
      BY <2>2, <2>3
  <1>5. CASE RejectAPI(r)
    BY <1>1, <1>2, <1>5 DEF RejectAPI
  <1>6. QED
    BY <1>3, <1>4, <1>5

LEMMA RequestStepFollows ==
  ASSUME Typed, NEW r \in Request, RequestStep(r)
  PROVE  \E row : Store(r, row) /\ Follows(r, row)
  <1> DEFINE f == FlowOf(r)
  <1>1. /\ TypedSteps
        /\ TypedFlow(f, position)
    BY DEF Typed, TypedRow, FlowOf
  <1>2. {"CANCELED", "ACCEPTED", "ON_HOLD", "PROCESSING", "COMPLETE", "FAILED"}
          \subseteq StateOrFree
    BY DEF StateOrFree, RequestState
  <1>3. CASE ApproveStep(r)
    BY <1>3, ApproveStepFollows
  <1>4. CASE RejectUI(r) \/ RejectStepAPI(r) \/ RejectAPI(r)
    BY <1>4, RejectFollows
  <1>5. CASE Submit(r) \/ ReSubmitUI(r) \/ ReSubmitAPI(r)
    <2>1. /\ StateOf(r) \in {"SUBMITTED", "FREE"}
          /\ \/ Store(r, SetUp)
             \/ Store(r, [SetUp EXCEPT !.state = "SUBMITTED"])
      BY <1>5 DEF Submit, ReSubmitUI, ReSubmitAPI
    <2>2. QED
      BY <1>1, <2>1, SetUpFollows
  <1>6. CASE Cancel(r)
    <2>1. "CANCELED" \notin AcceptFrom
      BY DEF AcceptFrom
    <2>2. QED
      BY <1>1, <1>2, <1>6, <2>1, SavedFollows DEF Cancel
  <1>7. CASE Hold(r)
    BY <1>1, <1>2, <1>7, SavedFollows DEF Hold
  <1>8. CASE AcceptUI(r) \/ AcceptAPI(r)
    <2>1. StateOf(r) \notin {"CANCELED", "REJECTED", "COMPLETE"}
      BY <1>8 DEF AcceptUI, AcceptAPI, AcceptFrom
    <2>2. QED
      BY <1>1, <1>2, <1>8, <2>1, SavedFollows DEF AcceptUI, AcceptAPI
  <1>9. CASE Process(r)
    <2>1. "PROCESSING" \notin AcceptFrom
      BY DEF AcceptFrom
    <2>2. QED
      BY <1>1, <1>2, <1>9, <2>1, SavedFollows DEF Process
  <1>10. CASE \E outcome \in {"COMPLETE", "FAILED"} : End(r, outcome)
    <2>1. StateOf(r) \notin {"CANCELED", "REJECTED", "COMPLETE"}
      BY <1>10 DEF End
    <2>2. QED
      BY <1>1, <1>2, <1>10, <2>1, SavedFollows DEF End
  <1>11. QED
    BY <1>3, <1>4, <1>5, <1>6, <1>7, <1>8, <1>9, <1>10 DEF RequestStep, Review

LEMMA StoreKeeps ==
  ASSUME Typed, NEW r \in Request, NEW row, Store(r, row), Follows(r, row)
  PROVE  /\ Typed'
         /\ Ordered => Ordered'
  <1>1. /\ request' = [request EXCEPT ![r] = row]
        /\ position' = position /\ lastStep' = lastStep /\ enabled' = enabled
    BY DEF Store, workflow
  <1>2. \A q \in Request : request'[q] = IF q = r THEN row ELSE request[q]
    BY <1>1 DEF Typed
  <1>3. TypedSteps'
    BY <1>1 DEF Typed, TypedSteps
  <1>4. request' = [q \in Request |-> request'[q]]
    BY <1>1 DEF Typed
  <1>5. ASSUME NEW q \in Request PROVE TypedRow(request'[q], position')
    BY <1>1, <1>2 DEF Typed, Follows
  <1>6. Typed'
    BY <1>3, <1>4, <1>5 DEF Typed
  <1>7. ASSUME Ordered, ~Reorders, NEW q \in Request
        PROVE  OrderedFlow(request'[q].flow, position')
    BY <1>1, <1>2, <1>7 DEF Ordered, Follows, FlowOf
  <1>8. QED
    BY <1>6, <1>7 DEF Ordered, FlowOf
-----------------------------------------------------------------------------
(* The actions of administrators. *)

(* A bounded set of numbers has a largest one: the least of its upper bounds. *)
LEMMA NatMax ==
  ASSUME NEW T, T \subseteq Nat, T # {}, NEW b \in Nat, \A x \in T : x < b
  PROVE  \E m \in T : \A x \in T : x <= m
  <1> DEFINE U == {n \in Nat : \A x \in T : x <= n}
  <1>1. b \in U
    OBVIOUS
  <1>2. PICK m \in U : \A n \in U : m <= n
    BY <1>1, NatMin
  <1>3. ASSUME m \notin T PROVE FALSE
    <2>1. \A x \in T : x <= m - 1
      BY <1>3
    <2>2. m - 1 \in Nat
      <3>1. PICK x \in T : TRUE
        OBVIOUS
      <3>2. x \in Nat /\ x <= m - 1 /\ m \in Nat
        BY <2>1, <3>1
      <3> HIDE DEF U
      <3>3. QED
        BY <3>2
    <2>3. m - 1 \in U
      BY <2>1, <2>2
    <2>4. QED
      BY <1>2, <2>3
  <1>4. QED
    BY <1>2, <1>3

LEMMA CreateStepKeeps ==
  ASSUME Typed, CreateStep
  PROVE  /\ Typed'
         /\ Ordered => Ordered'
  <1> DEFINE new == lastStep + 1
             P == Range(position)
             m == CHOOSE p \in P : \A q \in P : q <= p
             after == IF DOMAIN position = {} THEN 0 ELSE m + 1
  <1>1. /\ lastStep < MaxStep
        /\ lastStep' = new
        /\ position' = [s \in DOMAIN position \cup {new} |->
                           IF s = new THEN after ELSE position[s]]
        /\ enabled' = enabled /\ request' = request
    BY DEF CreateStep
  <1>2. TypedSteps /\ lastStep \in Nat
    BY ConstantsAssumption DEF Typed, TypedSteps
  <1>3. /\ after \in Nat
        /\ after < new
        /\ \A s \in DOMAIN position : position[s] < after
    <2>1. CASE DOMAIN position = {}
      BY <1>2, <2>1
    <2>2. CASE DOMAIN position # {}
      <3>1. P \subseteq Nat /\ P # {} /\ \A p \in P : p < lastStep
        BY <1>2, <2>2 DEF TypedSteps, Range
      <3>2. \E p \in P : \A q \in P : q <= p
        BY <1>2, <3>1, NatMax
      <3>3. m \in P /\ \A q \in P : q <= m
        BY <3>2
      <3>4. \A s \in DOMAIN position : position[s] \in P
        BY DEF Range
      <3> HIDE DEF P, m
      <3>5. m \in Nat /\ m < lastStep
        BY <3>1, <3>3
      <3>6. after = m + 1
        BY <2>2
      <3>7. \A s \in DOMAIN position : position[s] \in Nat /\ position[s] <= m
        BY <3>1, <3>3, <3>4
      <3> HIDE DEF after
      <3>8. QED
        BY <1>2, <3>5, <3>6, <3>7
    <2>3. QED
      BY <2>1, <2>2
  <1>4. new \notin DOMAIN position
    BY <1>2 DEF TypedSteps
  <1>5. /\ DOMAIN position' = DOMAIN position \cup {new}
        /\ \A s \in DOMAIN position : position'[s] = position[s]
        /\ position'[new] = after
    BY <1>1, <1>4
  <1> HIDE DEF after
  <1>6. TypedSteps'
    <2>1. DOMAIN position' \subseteq 1..lastStep' /\ lastStep' \in 0..MaxStep
      BY <1>1, <1>2, <1>5, ConstantsAssumption DEF TypedSteps
    <2>2. position' \in [DOMAIN position' -> Nat]
      BY <1>1, <1>2, <1>3 DEF TypedSteps
    <2>3. \A s \in DOMAIN position' : position'[s] < lastStep'
      BY <1>1, <1>2, <1>3, <1>5 DEF TypedSteps
    <2>4. IsInjective(position')
      BY <1>2, <1>3, <1>5 DEF TypedSteps, IsInjective
    <2>5. QED
      BY <1>1, <1>2, <2>1, <2>2, <2>3, <2>4 DEF TypedSteps
  <1>7. ASSUME NEW f, TypedFlow(f, position)
        PROVE  /\ TypedFlow(f, position')
               /\ OrderedFlow(f, position) => OrderedFlow(f, position')
    BY <1>5, <1>7 DEF TypedFlow, OverStepsOf, OrderedFlow, Waits
  <1>8. Typed'
    BY <1>1, <1>6, <1>7 DEF Typed, TypedRow
  <1>9. Ordered => Ordered'
    BY <1>1, <1>7 DEF Ordered, Typed, TypedRow, FlowOf
  <1>10. QED
    BY <1>8, <1>9

LEMMA WithoutStepOK ==
  ASSUME NEW f, TypedFlow(f, position), NEW s
  PROVE  /\ TypedFlow(WithoutStep(f, s), Restrict(position, DOMAIN position \ {s}))
         /\ OrderedFlow(f, position) =>
              OrderedFlow(WithoutStep(f, s), Restrict(position, DOMAIN position \ {s}))
  <1> DEFINE g == WithoutStep(f, s)
             after == Restrict(f.verdict, StepsOf(f) \ {s})
             pos == Restrict(position, DOMAIN position \ {s})
  <1>1. CASE f = None \/ (Waits(f) /\ f.current = s)
    BY <1>1 DEF WithoutStep, TypedFlow, OrderedFlow, Waits
  <1>2. CASE f # None /\ ~(Waits(f) /\ f.current = s)
    <2>1. /\ f \in [version : {f.version}, current : StepsOf(f) \cup {None},
                    verdict : [StepsOf(f) -> Verdict]]
          /\ StepsOf(f) \subseteq DOMAIN position
          /\ f.current \in (StepsOf(f) \ {s}) \cup {None}
      BY <1>2 DEF TypedFlow, OverStepsOf, Waits
    <2>2. after \in [StepsOf(f) \ {s} -> Verdict]
      BY <2>1 DEF Restrict
    <2>3. g = [f EXCEPT !.verdict = after]
      BY <1>2 DEF WithoutStep
    <2>4. /\ g \in [version : {f.version}, current : (StepsOf(f) \ {s}) \cup {None},
                    verdict : [StepsOf(f) \ {s} -> Verdict]]
          /\ g.current = f.current
          /\ g.verdict = after
          /\ g.version = f.version
      <3> HIDE DEF after, g
      <3>1. QED
        BY <2>1, <2>2, <2>3
    <2>5. StepsOf(g) = StepsOf(f) \ {s}
      BY <2>2, <2>4 DEF StepsOf
    <2>6. /\ DOMAIN pos = DOMAIN position \ {s}
          /\ \A t \in DOMAIN pos : pos[t] = position[t]
          /\ \A t \in StepsOf(f) \ {s} : after[t] = f.verdict[t]
      BY DEF Restrict
    <2>7. TypedFlow(g, pos)
      BY <2>1, <2>4, <2>5, <2>6 DEF TypedFlow, OverStepsOf
    <2>8. OrderedFlow(f, position) => OrderedFlow(g, pos)
      BY <1>2, <2>1, <2>4, <2>5, <2>6 DEF OrderedFlow, Waits
    <2>9. QED
      BY <2>7, <2>8
  <1>3. QED
    BY <1>1, <1>2

LEMMA DeleteStepKeeps ==
  ASSUME Typed, NEW s \in Step, DeleteStep(s)
  PROVE  /\ Typed'
         /\ Ordered => Ordered'
  <1>1. /\ position' = Restrict(position, DOMAIN position \ {s})
        /\ enabled' = enabled /\ lastStep' = lastStep
        /\ request' = [r \in Request |-> [request[r] EXCEPT !.flow = WithoutStep(@, s)]]
    BY DEF DeleteStep
  <1>2. /\ DOMAIN position' = DOMAIN position \ {s}
        /\ \A t \in DOMAIN position' : position'[t] = position[t]
    BY <1>1 DEF Restrict
  <1>3. TypedSteps'
    <2>1. position' \in [DOMAIN position' -> Nat]
      BY <1>1, <1>2 DEF Restrict, Typed, TypedSteps
    <2>2. QED
      BY <1>1, <1>2, <2>1 DEF Typed, TypedSteps, IsInjective
  <1>4. ASSUME NEW r \in Request
        PROVE  /\ request'[r] = [state |-> StateOf(r), flow |-> WithoutStep(FlowOf(r), s)]
               /\ request'[r].state = StateOf(r)
               /\ request'[r].flow = WithoutStep(FlowOf(r), s)
    <2>1. request'[r] = [state |-> StateOf(r), flow |-> WithoutStep(FlowOf(r), s)]
      BY <1>1 DEF Typed, TypedRow, StateOf, FlowOf
    <2> DEFINE w == WithoutStep(FlowOf(r), s)
    <2>2. request'[r] = [state |-> StateOf(r), flow |-> w]
      BY <2>1
    <2> HIDE DEF w
    <2>3. request'[r].state = StateOf(r) /\ request'[r].flow = w
      BY <2>2
    <2>4. QED
      BY <2>1, <2>3 DEF w
  <1>5. ASSUME NEW r \in Request
        PROVE  /\ TypedRow(request'[r], position')
               /\ OrderedFlow(FlowOf(r), position) => OrderedFlow(request'[r].flow, position')
    <2>1. TypedFlow(FlowOf(r), position) /\ StateOf(r) \in StateOrFree
      BY DEF Typed, TypedRow, FlowOf, StateOf
    <2>2. request'[r].flow = WithoutStep(FlowOf(r), s) /\ request'[r].state = StateOf(r)
      BY <1>4
    <2>3. QED
      BY <1>1, <1>4, <2>1, <2>2, WithoutStepOK DEF TypedRow
  <1>6. request' = [r \in Request |-> request'[r]]
    BY <1>1
  <1>7. Typed'
    BY <1>3, <1>5, <1>6 DEF Typed
  <1>8. Ordered => Ordered'
    BY <1>5 DEF Ordered, FlowOf
  <1>9. QED
    BY <1>7, <1>8
LEMMA ReorderKeeps ==
  ASSUME Typed, Reorder
  PROVE  /\ Typed'
         /\ Ordered => Ordered'
  <1>1. /\ position' \in [DOMAIN position -> 0..(Cardinality(DOMAIN position) - 1)]
        /\ IsInjective(position')
        /\ lastStep' = lastStep /\ enabled' = enabled /\ request' = request
        /\ Reorders \/ \A r \in Request : ~Waits(FlowOf(r))
    BY DEF Reorder
  <1>2. lastStep \in Nat /\ DOMAIN position \subseteq 1..lastStep
    BY ConstantsAssumption DEF Typed, TypedSteps
  <1>3. Cardinality(DOMAIN position) \in Nat /\ Cardinality(DOMAIN position) <= lastStep
    <2>1. IsFiniteSet(1..lastStep) /\ Cardinality(1..lastStep) = lastStep
      BY <1>2, FS_Interval
    <2>2. /\ IsFiniteSet(DOMAIN position)
          /\ Cardinality(DOMAIN position) <= Cardinality(1..lastStep)
      BY <1>2, <2>1, FS_Subset
    <2>3. QED
      BY <2>1, <2>2, FS_CardinalityType
  <1>4. TypedSteps'
    <2>1. \A s \in DOMAIN position' : position'[s] \in Nat /\ position'[s] < lastStep'
      BY <1>1, <1>2, <1>3
    <2>2. position' \in [DOMAIN position' -> Nat]
      BY <1>1, <2>1
    <2>3. QED
      BY <1>1, <2>1, <2>2 DEF Typed, TypedSteps
  <1>5. Typed'
    <2>1. DOMAIN position' = DOMAIN position
      BY <1>1
    <2>2. QED
      BY <1>1, <1>4, <2>1 DEF Typed, TypedRow, TypedFlow
  <1>6. Ordered => Ordered'
    BY <1>1 DEF Ordered, OrderedFlow, FlowOf
  <1>7. QED
    BY <1>5, <1>6

LEMMA DeleteWorkflowKeeps ==
  ASSUME Typed, DeleteWorkflow
  PROVE  /\ Typed'
         /\ Ordered => Ordered'
  <1>1. /\ enabled' = FALSE /\ lastStep' = lastStep
        /\ position' = Restrict(position, {})
        /\ request' = [r \in Request |-> [request[r] EXCEPT !.flow = None]]
    BY DEF DeleteWorkflow
  <1>2. DOMAIN position' = {}
    BY <1>1 DEF Restrict
  <1>3. TypedSteps'
    <2>1. position' \in [DOMAIN position' -> Nat]
      BY <1>1, <1>2 DEF Restrict
    <2>2. QED
      BY <1>1, <1>2, <2>1 DEF Typed, TypedSteps, IsInjective
  <1>4. ASSUME NEW r \in Request
        PROVE  request'[r] = [state |-> StateOf(r), flow |-> None]
    BY <1>1 DEF Typed, TypedRow, StateOf
  <1>5. ASSUME NEW r \in Request
        PROVE  TypedRow(request'[r], position') /\ OrderedFlow(request'[r].flow, position')
    <2> DEFINE row == request'[r]
               old == StateOf(r)
    <2>1. row = [state |-> old, flow |-> None]
      BY <1>4
    <2>2. row.state = old /\ row.flow = None
      <3> HIDE DEF row, old
      <3> QED
        BY <2>1
    <2>3. StateOf(r) \in StateOrFree
      BY DEF Typed, TypedRow, StateOf
    <2>4. QED
      BY <1>4, <2>2, <2>3 DEF TypedRow, TypedFlow, OrderedFlow, Waits
  <1>6. request' = [r \in Request |-> request'[r]]
    BY <1>1
  <1>7. QED
    BY <1>3, <1>5, <1>6 DEF Typed, Ordered, FlowOf

LEMMA ResetAllKeeps ==
  ASSUME Typed, ResetAll
  PROVE  /\ Typed'
         /\ Ordered => Ordered'
  <1>1. /\ request' = [r \in Request |-> IF r \in ToReset THEN SetUp ELSE request[r]]
        /\ enabled' = enabled /\ lastStep' = lastStep /\ position' = position
    BY DEF ResetAll, workflow
  <1>2. ASSUME NEW r \in ToReset
        PROVE  TypedRow(SetUp, position) /\ OrderedFlow(SetUp.flow, position)
    <2>1. r \in Request /\ StateOf(r) = "SUBMITTED"
      BY DEF ToReset
    <2>2. QED
      BY <2>1, SetUpFollows DEF Typed, Follows
  <1>3. ASSUME NEW r \in Request
        PROVE  /\ TypedRow(request'[r], position')
               /\ OrderedFlow(FlowOf(r), position) => OrderedFlow(request'[r].flow, position')
    BY <1>1, <1>2 DEF Typed, FlowOf
  <1>4. TypedSteps'
    BY <1>1 DEF Typed, TypedSteps
  <1>5. request' = [r \in Request |-> request'[r]]
    BY <1>1
  <1>6. QED
    BY <1>3, <1>4, <1>5 DEF Typed, Ordered, FlowOf

-----------------------------------------------------------------------------
(* The theorems. *)

LEMMA InitTyped == Init => Typed /\ Ordered
  <1> SUFFICES ASSUME Init PROVE Typed /\ Ordered
    OBVIOUS
  <1>1. TypedSteps
    <2>1. enabled = FALSE /\ lastStep = 0 /\ position = [s \in {} |-> 0]
      BY DEF Init
    <2>2. DOMAIN position = {} /\ position \in [DOMAIN position -> Nat]
      BY <2>1
    <2>3. 0 \in 0..MaxStep
      BY ConstantsAssumption
    <2>4. QED
      BY <2>1, <2>2, <2>3 DEF TypedSteps, IsInjective
  <1>2. ASSUME NEW r \in Request
        PROVE  TypedRow(request[r], position) /\ OrderedFlow(FlowOf(r), position)
    BY DEF Init, TypedRow, TypedFlow, OrderedFlow, Waits, StateOrFree, FlowOf
  <1>3. request = [r \in Request |-> request[r]]
    BY DEF Init
  <1>4. QED
    BY <1>1, <1>2, <1>3 DEF Typed, Ordered

LEMMA NextTyped == Typed /\ [Next]_vars => Typed' /\ (Ordered => Ordered')
  <1> SUFFICES ASSUME Typed, [Next]_vars PROVE Typed' /\ (Ordered => Ordered')
    OBVIOUS
  <1>1. CASE \E r \in Request : RequestStep(r)
    <2>1. PICK r \in Request : RequestStep(r)
      BY <1>1
    <2>2. PICK row : Store(r, row) /\ Follows(r, row)
      BY <2>1, RequestStepFollows
    <2>3. QED
      BY <2>2, StoreKeeps
  <1>2. CASE CreateStep
    BY <1>2, CreateStepKeeps
  <1>3. CASE \E s \in Step : DeleteStep(s)
    BY <1>3, DeleteStepKeeps
  <1>4. CASE Reorder
    BY <1>4, ReorderKeeps
  <1>5. CASE Enable
    <2>1. /\ enabled' = ~enabled /\ lastStep' = lastStep
          /\ position' = position /\ request' = request
      BY <1>5 DEF Enable
    <2>2. QED
      BY <2>1 DEF Typed, TypedSteps, Ordered, FlowOf
  <1>6. CASE DeleteWorkflow
    BY <1>6, DeleteWorkflowKeeps
  <1>7. CASE ResetAll
    BY <1>7, ResetAllKeeps
  <1>8. CASE UNCHANGED vars
    BY <1>8 DEF vars, workflow, Typed, TypedSteps, Ordered, FlowOf
  <1>9. QED
    BY <1>1, <1>2, <1>3, <1>4, <1>5, <1>6, <1>7, <1>8
    DEF Next, Administration, RequestStep

LEMMA TypedIsTypeOK == Typed => TypeOK
  <1> SUFFICES ASSUME Typed PROVE TypeOK
    OBVIOUS
  <1>1. ASSUME NEW r \in Request
        PROVE  /\ request[r] = [state |-> StateOf(r), flow |-> FlowOf(r)]
               /\ StateOf(r) \in RequestState \cup {"FREE"}
               /\ FlowOf(r) # None =>
                     /\ StepsOf(FlowOf(r)) \subseteq DOMAIN position
                     /\ FlowOf(r).verdict \in [StepsOf(FlowOf(r)) -> Verdict]
                     /\ FlowOf(r).current \in StepsOf(FlowOf(r)) \cup {None}
    BY DEF Typed, TypedRow, TypedFlow, OverStepsOf, StateOf, FlowOf, StateOrFree
  <1>2. request = [r \in Request |-> [state |-> StateOf(r), flow |-> FlowOf(r)]]
    BY <1>1 DEF Typed
  <1>3. QED
    BY <1>1, <1>2 DEF Typed, TypedSteps, TypeOK

LEMMA AlwaysTyped == Spec => []Typed /\ []Ordered
  BY InitTyped, NextTyped, PTL DEF Spec

(* No workflow state speaks of a step that is gone, whatever steps are created, moved and
   deleted under it. *)
THEOREM TypeCorrect == Spec => []TypeOK
  BY AlwaysTyped, TypedIsTypeOK, PTL

(* The approved steps are those before the current one: nothing is asked twice and
   nothing passed over, as long as no step is moved while a request waits. *)
THEOREM StepsInOrder == ASSUME ~Reorders PROVE Spec => []InOrder
  <1>1. Typed /\ Ordered => InOrder
    BY DEF Ordered, OrderedFlow, InOrder
  <1>2. QED
    BY <1>1, AlwaysTyped, PTL

LEMMA StoredRow ==
  ASSUME Typed, NEW r \in Request, NEW row, Store(r, row)
  PROVE  \A q \in Request : request'[q] = IF q = r THEN row ELSE request[q]
  BY DEF Store, Typed

LEMMA AdministrationKeepsStates ==
  ASSUME Typed, Administration, NEW r \in Request
  PROVE  \/ request'[r].state = StateOf(r)
         \/ StateOf(r) = "SUBMITTED" /\ request'[r] = SetUp /\ Follows(r, SetUp)
  <1>1. CASE CreateStep \/ Reorder \/ Enable
    BY <1>1 DEF CreateStep, Reorder, Enable, StateOf
  <1>2. CASE \E s \in Step : DeleteStep(s)
    BY <1>2 DEF DeleteStep, StateOf, Typed, TypedRow
  <1>3. CASE DeleteWorkflow
    BY <1>3 DEF DeleteWorkflow, StateOf, Typed, TypedRow
  <1>4. CASE ResetAll
    <2>1. request'[r] = IF r \in ToReset THEN SetUp ELSE request[r]
      BY <1>4 DEF ResetAll
    <2>2. r \in ToReset => StateOf(r) = "SUBMITTED"
      BY DEF ToReset
    <2>3. QED
      BY <2>1, <2>2, SetUpFollows DEF StateOf, Typed
  <1>5. QED
    BY <1>1, <1>2, <1>3, <1>4 DEF Administration

(* What a workflow accepts was approved at every step. *)
THEOREM AcceptedAtEveryStep == ASSUME ~Reorders PROVE Spec => AcceptedStepByStep
  <1> DEFINE Earned(r) ==
                /\ StateOf(r) # "ACCEPTED"
                /\ Waits(FlowOf(r))
                /\ request'[r].state = "ACCEPTED"
                /\ request'[r].flow # None
                /\ ~Waits(request'[r].flow)
                => AllApproved(request'[r].flow)
  <1>1. Typed /\ Ordered /\ [Next]_vars => [\A r \in Request : Earned(r)]_vars
    <2> SUFFICES ASSUME Typed, Ordered, Next, NEW r \in Request PROVE Earned(r)
      OBVIOUS
    <2>1. OrderedFlow(FlowOf(r), position)
      BY DEF Ordered
    <2>2. CASE \E q \in Request : RequestStep(q)
      <3>1. PICK q \in Request : RequestStep(q)
        BY <2>2
      <3>2. PICK row : Store(q, row) /\ Follows(q, row)
        BY <3>1, RequestStepFollows
      <3>3. request'[r] = IF r = q THEN row ELSE request[r]
        BY <3>2, StoredRow
      <3>4. QED
        BY <2>1, <3>2, <3>3 DEF Follows, StateOf
    <2>3. CASE Administration
      BY <2>1, <2>3, AdministrationKeepsStates DEF Follows
    <2>4. QED
      BY <2>2, <2>3 DEF Next, RequestStep
  <1>2. QED
    BY <1>1, AlwaysTyped, PTL DEF Spec, AcceptedStepByStep, AllApproved, StepsOf

(* A request that was refused or is done is not accepted by the approval of a step. *)
THEOREM SettledForGood == Spec => SettledStaysSettled
  <1> DEFINE Stays(r) ==
                StateOf(r) \in {"CANCELED", "REJECTED", "COMPLETE"}
                   => request'[r].state # "ACCEPTED"
  <1>1. Typed /\ [Next]_vars => [\A r \in Request : Stays(r)]_vars
    <2> SUFFICES ASSUME Typed, Next, NEW r \in Request PROVE Stays(r)
      OBVIOUS
    <2>1. CASE \E q \in Request : RequestStep(q)
      <3>1. PICK q \in Request : RequestStep(q)
        BY <2>1
      <3>2. PICK row : Store(q, row) /\ Follows(q, row)
        BY <3>1, RequestStepFollows
      <3>3. request'[r] = IF r = q THEN row ELSE request[r]
        BY <3>2, StoredRow
      <3>4. QED
        BY <3>2, <3>3 DEF Follows, StateOf
    <2>2. CASE Administration
      BY <2>2, AdministrationKeepsStates
    <2>3. QED
      BY <2>1, <2>2 DEF Next, RequestStep
  <1>2. QED
    BY <1>1, AlwaysTyped, PTL DEF Spec, SettledStaysSettled

(* What a workflow that is set up is made of, whatever conditions pass it on at once. *)
LEMMA SetUpIsCurrent ==
  ASSUME TypedSteps
  PROVE  IF enabled THEN SetUp.flow # None /\ SetUp.flow.version = Version
                    ELSE SetUp.flow = None
  <1> DEFINE f == Instantiated
             g == AutoApproved(f)
  <1>1. TypedFlow(f, position) /\ f.version = Version /\ DOMAIN f.verdict = DOMAIN position
    BY InstantiatedOK DEF Instantiated
  <1>2. f = [version |-> Version, current |-> f.current, verdict |-> f.verdict]
    BY DEF Instantiated
  <1>3. f.current \in DOMAIN position \cup {None}
    BY FirstIsFirst, FirstOfNone DEF Instantiated
  <1>4. f.verdict \in [DOMAIN position -> Verdict]
    BY DEF Instantiated, Verdict
  <1>5. /\ DOMAIN position \in SUBSET Step
        /\ Version \in BOOLEAN \X UNION {[S -> 0..MaxStep] : S \in SUBSET Step}
    <2>1. lastStep \in Nat /\ lastStep <= MaxStep /\ MaxStep \in Nat
      BY ConstantsAssumption DEF TypedSteps
    <2>2. DOMAIN position \in SUBSET Step
      BY <2>1 DEF TypedSteps, Step
    <2>3. position \in [DOMAIN position -> 0..MaxStep]
      BY <2>1 DEF TypedSteps
    <2> QED
      BY <2>2, <2>3 DEF Version, TypedSteps
  <1> HIDE DEF f
  <1> DEFINE Current == [version : {Version}, current : DOMAIN position \cup {None},
                         verdict : [DOMAIN position -> Verdict]]
  <1>6. Current \subseteq ApprovalWorkflowState /\ None \notin Current /\ f \in Current
    <2>1. Current \subseteq ApprovalWorkflowState
      BY <1>5 DEF ApprovalWorkflowState
    <2>2. f \in Current
      BY <1>2, <1>3, <1>4
    <2> QED
      BY <2>1, <2>2, NoneIsNoFlow
  <1>7. g # None /\ g.version = Version
    <2>1. CASE ~Waits(f)
      BY <1>1, <1>6, <2>1 DEF AutoApproved
    <2>2. CASE Waits(f)
      <3> DEFINE ahead == {f.current} \cup Later(f)
                 stop == First(ahead \ Conditional)
                 passed == {s \in ahead : stop = None \/ position[s] < position[stop]}
                 after == [s \in StepsOf(f) |->
                              IF s \in passed THEN "APPROVED" ELSE f.verdict[s]]
      <3>1. /\ ahead \subseteq StepsOf(f) /\ StepsOf(f) = DOMAIN position
        BY <1>1, <2>2, LaterIsAhead DEF StepsOf
      <3>2. stop \in DOMAIN position \cup {None}
        BY <3>1, FirstIsFirst, FirstOfNone
      <3>3. after \in [DOMAIN position -> Verdict]
        BY <1>4, <3>1 DEF Verdict
      <3>4. g.current = stop /\ g.verdict = after
        BY <1>2, <2>2 DEF AutoApproved
      <3>5. g = [f EXCEPT !.current = g.current, !.verdict = g.verdict]
        BY <1>2, <2>2 DEF AutoApproved
      <3> HIDE DEF stop, after, g
      <3>6. g \in Current
        BY <1>6, <3>2, <3>3, <3>4, <3>5
      <3> QED
        BY <1>6, <3>6
    <2> QED
      BY <2>1, <2>2
  <1> QED
    BY <1>7 DEF SetUp, Saved, f

(* A reset misses nobody: a waiting request it leaves alone is up to date already. *)
THEOREM ResetMissesNobody == Spec => ResetBringsUpToDate
  <1> DEFINE UpToDate(r) ==
                request'[r].state = "SUBMITTED" =>
                   IF enabled THEN request'[r].flow # None /\ request'[r].flow.version = Version
                              ELSE request'[r].flow = None
  <1>1. Typed => [ResetAll => \A r \in Request : UpToDate(r)]_vars
    <2> SUFFICES ASSUME Typed, ResetAll, NEW r \in Request PROVE UpToDate(r)
      OBVIOUS
    <2>1. request'[r] = IF r \in ToReset THEN SetUp ELSE request[r]
      BY DEF ResetAll
    <2>2. CASE r \in ToReset
      BY <2>1, <2>2, SetUpIsCurrent DEF Typed
    <2>3. CASE r \notin ToReset
      BY <2>1, <2>3 DEF ToReset, StateOf, FlowOf, Typed, TypedSteps
    <2> QED
      BY <2>2, <2>3
  <1>2. QED
    BY <1>1, AlwaysTyped, PTL DEF Spec, ResetBringsUpToDate
=============================================================================
